---- MODULE Spec2Model ----
(***************************************************************************)
(* ReFast launcher: handleLaunch (launch dispatch, optimistic history      *)
(* recording, background persistence / reconciliation, self-healing).      *)
(*                                                                         *)
(* Strings are sequences of one-character strings, so that toLowerCase,    *)
(* trim, the separator regexes and endsWith / includes are computed        *)
(* character by character as the JavaScript does.  Error messages are      *)
(* sequences of tokens (a token stands for a run of characters that the    *)
(* code only ever tests as a whole with String.includes).                  *)
(***************************************************************************)
EXTENDS Integers, Sequences, FiniteSets, TLC

\* ------------------------------------------------------------------------
\* Bounds of the model
\* ------------------------------------------------------------------------

\* handleLaunch invocations in one behaviour of SpecHeal and of SpecFile
MaxLaunches == 1

\* handleLaunch invocations in one behaviour of SpecRecord
MaxRecordings == 2

\* handleLaunch invocations that may be suspended at an await at the same time
MaxActive == 1

\* entries of the handlers array of useEscapeKeyWithPriority
MaxHandlers == 3

\* keydown events in one behaviour of SpecEscape
MaxPresses == 2

\* ------------------------------------------------------------------------
\* Characters and strings
\* ------------------------------------------------------------------------

UpperChars == <<"A","B","C","D","E","F","G","H","I","J","K","L","M",
                "N","O","P","Q","R","S","T","U","V","W","X","Y","Z">>

LowerChars == <<"a","b","c","d","e","f","g","h","i","j","k","l","m",
                "n","o","p","q","r","s","t","u","v","w","x","y","z">>

\* String.prototype.toLowerCase, one character
toLowerChar(ch) ==
    IF \E i \in DOMAIN UpperChars : UpperChars[i] = ch
    THEN LowerChars[CHOOSE i \in DOMAIN UpperChars : UpperChars[i] = ch]
    ELSE ch

\* String.prototype.toLowerCase
toLowerCase(s) == [i \in DOMAIN s |-> toLowerChar(s[i])]

\* the characters String.prototype.trim removes
IsWhiteSpace(ch) == ch \in {" ", "\t", "\n", "\r"}

\* the character class [\\/]
IsSeparator(ch) == ch \in {"\\", "/"}

\* s without its longest suffix of characters satisfying the class
RECURSIVE DropTrailing(_, _)
DropTrailing(s, sep) ==
    IF s = <<>> THEN s
    ELSE IF (sep /\ IsSeparator(s[Len(s)])) \/ (~sep /\ IsWhiteSpace(s[Len(s)]))
         THEN DropTrailing(SubSeq(s, 1, Len(s) - 1), sep)
         ELSE s

\* s without its longest prefix of white space
RECURSIVE DropLeadingSpace(_)
DropLeadingSpace(s) ==
    IF s = <<>> THEN s
    ELSE IF IsWhiteSpace(s[1]) THEN DropLeadingSpace(Tail(s)) ELSE s

\* String.prototype.trim
trim(s) == DropTrailing(DropLeadingSpace(s), FALSE)

\* s.replace(/[\\/]+$/, "")
stripTrailingSeparators(s) == DropTrailing(s, TRUE)

\* s.replace(/\//g, "\\")
slashToBackslash(s) == [i \in DOMAIN s |-> IF s[i] = "/" THEN "\\" ELSE s[i]]

\* s.replace(/\\/, "/"): without the g flag only the first backslash is replaced
firstBackslashToSlash(s) ==
    [i \in DOMAIN s |->
        IF s[i] = "\\" /\ \A j \in 1..(i - 1) : s[j] # "\\" THEN "/" ELSE s[i]]

\* s.replace(/\\/g, "/")
backslashToSlash(s) == [i \in DOMAIN s |-> IF s[i] = "\\" THEN "/" ELSE s[i]]

\* String.prototype.endsWith
endsWith(s, suffix) ==
    /\ Len(suffix) <= Len(s)
    /\ SubSeq(s, Len(s) - Len(suffix) + 1, Len(s)) = suffix

\* String.prototype.startsWith
startsWith(s, prefix) ==
    /\ Len(prefix) <= Len(s)
    /\ SubSeq(s, 1, Len(prefix)) = prefix

\* String.prototype.includes
includes(s, part) ==
    \E i \in 1..(Len(s) - Len(part) + 1) : SubSeq(s, i, i + Len(part) - 1) = part

\* /^http:\/\//.test(s): a pattern without the optional s
isHttpUrlPlain(s) == startsWith(s, <<"h","t","t","p",":","/","/">>)

\* /^https?:\/\//.test(s)
isHttpUrl(s) ==
    \/ startsWith(s, <<"h","t","t","p",":","/","/">>)
    \/ startsWith(s, <<"h","t","t","p","s",":","/","/">>)

\* normalizePathForMatch: path.trim().replace(/[\\/]+$/, "")
normalizePathForMatch(path) == stripTrailingSeparators(trim(path))

\* normalizePathForHistory (launcherUtils): lower case, forward slashes
normalizePathForHistory(path) == backslashToSlash(toLowerCase(path))

\* the key handleLaunch compares a mirror / filteredFiles item by
itemKey(path) == normalizePathForHistory(normalizePathForMatch(path))

\* the self-healing comparison key: path.toLowerCase().replace(/\//g, "\\")
normalizedPathToRemove(path) == slashToBackslash(toLowerCase(path))

\* ------------------------------------------------------------------------
\* Inputs: paths, candidates (SearchResult), error messages
\* ------------------------------------------------------------------------

\* "C:\A.exe"
PathAppUpper == <<"C",":","\\","A",".","e","x","e">>

\* "c:/a.exe"
PathAppLower == <<"c",":","/","a",".","e","x","e">>

\* "C:\B.lnk"
PathShortcut == <<"C",":","\\","B",".","l","n","k">>

\* "D:\f"
PathFile == <<"D",":","\\","f">>

\* "D:\g"
PathFile2 == <<"D",":","\\","g">>

\* "D:\d \" : a directory whose name ends with a blank, with its separator
PathBlankDir == <<"D",":","\\","d"," ","\\">>

\* "http://x"
PathUrl == <<"h","t","t","p",":","/","/","x">>

\* "http://y"
PathUrl2 == <<"h","t","t","p",":","/","/","y">>

\* "http://z"
PathUrl3 == <<"h","t","t","p",":","/","/","z">>

\* a payload field (result.app, result.file, ...) that is undefined
NoPayload == <<"undefined">>

\* a candidate: result.type, result.path and the path of the payload field
\* that belongs to the type (result.app.path, result.file.path, result.url,
\* result.everything.path), NoPayload when that field is missing
Cand(type, path, payload) == [type |-> type, path |-> path, payload |-> payload]

AppUpper == Cand("app", PathAppUpper, PathAppUpper)
AppLower == Cand("app", PathAppLower, PathAppLower)
AppShortcut == Cand("app", PathShortcut, PathShortcut)
FileF == Cand("file", PathFile, PathFile)
FileG == Cand("file", PathFile2, PathFile2)
FileBlankDir == Cand("file", PathBlankDir, PathBlankDir)
FileAppUpper == Cand("file", PathAppUpper, PathAppUpper)
FileAppLower == Cand("file", PathAppLower, PathAppLower)
EverythingF == Cand("everything", PathFile, PathFile)
UrlX == Cand("url", PathUrl, PathUrl)
UrlY == Cand("url", PathUrl2, PathUrl2)
UrlZ == Cand("url", PathUrl3, PathUrl3)
MemoM == Cand("memo", <<"m">>, <<"m">>)

\* "C:\A.EXE": the extension in upper case
PathAppCaps == <<"C",":","\\","A",".","E","X","E">>

\* "C:\Recent\b.lnk": a shortcut inside a Recent folder
PathRecent == <<"C",":","\\","R","e","c","e","n","t","\\","b",".","l","n","k">>

\* "uwp!A": the identifier of a UWP application, no file path
PathUwp == <<"u","w","p","!","A">>

\* a path that is no link and no file: the text of a query, an identifier
PathText == <<"q">>

\* the candidates of the other types; history and settings have no payload
\* field, the others carry theirs (aiAnswer, email, jsonContent, plugin)
AppCaps == Cand("app", PathAppCaps, PathAppCaps)
AppRecent == Cand("app", PathRecent, PathRecent)
AppUwp == Cand("app", PathUwp, PathUwp)
EverythingUrl == Cand("everything", PathFile, PathUrl)
SearchQ == Cand("search", PathText, NoPayload)
AiA == Cand("ai", PathText, <<"a">>)
EmailE == Cand("email", PathText, <<"e">>)
JsonJ == Cand("json_formatter", PathText, <<"j">>)
HistoryH == Cand("history", PathText, NoPayload)
SettingsS == Cand("settings", PathText, NoPayload)
PluginP == Cand("plugin", PathText, <<"p">>)

\* "HTTP://X" and "https://s": links spelled in upper case and with https
PathLinkCaps == <<"H","T","T","P",":","/","/","X">>

PathLinkSecure == <<"h","t","t","p","s",":","/","/","s">>

\* candidates of types other than url whose result.path is a link
LinkCandidates ==
    {Cand("app", PathLinkSecure, PathAppUpper),
     Cand("file", PathLinkCaps, PathFile),
     Cand("memo", PathLinkCaps, <<"m">>),
     Cand("email", PathLinkSecure, <<"e">>),
     Cand("plugin", PathUrl, <<"p">>)}

\* an application candidate whose result.path is empty
AppNoPath == Cand("app", <<>>, PathAppUpper)

\* candidates whose type tag lacks its payload field
FileNoPayload == Cand("file", PathFile, NoPayload)
AppNoPayload == Cand("app", PathAppUpper, NoPayload)
UrlNoPayload == Cand("url", PathText, NoPayload)
MemoNoPayload == Cand("memo", PathText, NoPayload)

\* errorMessage === null
null == <<"null">>

\* Error messages, as token sequences.  The three Chinese phrases the
\* application branch looks for are the tokens "ShortcutFileMissing"
\* (kuai jie fang shi wen jian bu cun zai), "ShortcutTargetMissing"
\* (kuai jie fang shi mu biao bu cun zai) and "AppNotFound"
\* (ying yong cheng xu wei zhao dao).
MsgAppNotFound == <<"launch:", "AppNotFound">>
MsgShortcutFileMissing == <<"ShortcutFileMissing", ":", "x">>
MsgShortcutTargetMissing == <<"ShortcutTargetMissing">>
MsgAccessDenied == <<"Access", "denied">>
MsgPathNotFound == <<"Path", "not", "found", ":", "x">>
MsgFileNotFound == <<"file", "not", "found">>

\* the fixed text shown when navigator.clipboard.writeText rejects
MsgCopyFailed == <<"CopyFailed">>

\* an error message left on display by an earlier launch
MsgStale == <<"earlier", "failure">>

\* the notice appended after a successful index removal
IndexPrunedNotice == <<"\n\n", "IndexPruned">>

\* messages launchApplication may reject with
AppErrors == {MsgAppNotFound, MsgShortcutFileMissing, MsgShortcutTargetMissing,
              MsgAccessDenied}

\* messages launchFile may reject with
FileErrors == {MsgPathNotFound, MsgFileNotFound, MsgAccessDenied}

\* ------------------------------------------------------------------------
\* History entries (FileHistoryItem: path, last_used, use_count; the display
\* fields name and is_folder are not carried)
\* ------------------------------------------------------------------------

Entry(path, lastUsed, useCount) ==
    [path |-> path, last_used |-> lastUsed, use_count |-> useCount]

\* the history the backend store holds when the launcher starts
InitialHistory == <<Entry(PathAppLower, 0, 2), Entry(PathFile, 0, 1)>>

\* the application index when the launcher starts
InitialApps == <<PathAppUpper, PathShortcut>>

\* ------------------------------------------------------------------------
\* The history policy and the optimistic update of handleLaunch
\* ------------------------------------------------------------------------

\* a policy whose list of skipped types lacks "memo"
shouldUpdateHistoryMemo(c) ==
    IF c.path = <<>> THEN FALSE
    ELSE IF c.type \in {"ai", "email", "json_formatter", "history", "settings",
                        "plugin"}
         THEN FALSE
    ELSE IF c.type = "app"
         THEN LET pathLower == toLowerCase(c.path)
              IN  /\ \/ endsWith(pathLower, <<".","e","x","e">>)
                     \/ endsWith(pathLower, <<".","l","n","k">>)
                  /\ ~includes(pathLower, <<"\\","r","e","c","e","n","t","\\">>)
                  /\ ~includes(pathLower, <<"/","r","e","c","e","n","t","/">>)
    ELSE TRUE

\* a policy that tests the path as it is spelled
shouldUpdateHistoryAsSpelled(c) ==
    IF c.path = <<>> THEN FALSE
    ELSE IF c.type \in {"ai", "email", "json_formatter", "history", "settings",
                        "memo", "plugin"}
         THEN FALSE
    ELSE IF c.type = "app"
         THEN /\ \/ endsWith(c.path, <<".","e","x","e">>)
                 \/ endsWith(c.path, <<".","l","n","k">>)
              /\ ~includes(c.path, <<"\\","r","e","c","e","n","t","\\">>)
              /\ ~includes(c.path, <<"/","r","e","c","e","n","t","/">>)
    ELSE TRUE

\* shouldUpdateHistory(): whether the use of the candidate is recorded
shouldUpdateHistory(c) ==
    IF c.path = <<>> THEN FALSE
    ELSE IF c.type \in {"ai", "email", "json_formatter", "history", "settings",
                        "memo", "plugin"}
         THEN FALSE
    ELSE IF c.type = "app"
         THEN LET pathLower == toLowerCase(c.path)
                  isRealFilePath ==
                      \/ endsWith(pathLower, <<".","e","x","e">>)
                      \/ endsWith(pathLower, <<".","l","n","k">>)
                  isRecentFolder ==
                      \/ includes(pathLower, <<"\\","r","e","c","e","n","t","\\">>)
                      \/ includes(pathLower, <<"/","r","e","c","e","n","t","/">>)
              IN  isRealFilePath /\ ~isRecentFolder
    ELSE TRUE

\* the test of allFileHistoryCacheRef.current.find(...): the stored item path
\* is normalized for match again, the new path (already normalizedPath) is not
sameHistoryItem(itemPath, normalizedPath) ==
    normalizePathForHistory(normalizePathForMatch(itemPath))
        = normalizePathForHistory(normalizedPath)

\* a local increment of use_count by the optimistic update
incrementedUseCount(item) == item.use_count + 1

\* the value the optimistic update leaves in use_count of an existing item
keptUseCount(item) == item.use_count

\* the use_count a new item is pushed with
newUseCount == 0

\* an update that leaves the mirror as it is
skipRecordInCache(cache, pathToUpdate, t) == cache

\* the mirror after the optimistic update for pathToUpdate at timestamp t:
\* find() takes the first matching item and sets its last_used, otherwise a
\* new item is pushed
recordInCache(cache, pathToUpdate, t) ==
    LET normalizedPath == normalizePathForMatch(pathToUpdate)
        hits == {i \in DOMAIN cache : sameHistoryItem(cache[i].path, normalizedPath)}
    IN  IF hits # {}
        THEN LET first == CHOOSE i \in hits : \A j \in hits : i <= j
             IN  [cache EXCEPT ![first] =
                     Entry(cache[first].path, t, keptUseCount(cache[first]))]
        ELSE Append(cache, Entry(normalizedPath, t, newUseCount))

\* whether find() returned an item
existingItem(cache, pathToUpdate) ==
    \E i \in DOMAIN cache :
        sameHistoryItem(cache[i].path, normalizePathForMatch(pathToUpdate))

\* setFilteredFiles(prev => prev.map(...)) of the update branch
touchFilteredFiles(files, pathToUpdate, t) ==
    LET normalizedPath == normalizePathForMatch(pathToUpdate)
    IN  [i \in DOMAIN files |->
            IF sameHistoryItem(files[i].path, normalizedPath)
            THEN Entry(files[i].path, t, keptUseCount(files[i]))
            ELSE files[i]]

\* setOpenHistory(prev => ({...prev, [pathToUpdate]: timestampToUpdate}))
touchOpenHistory(oh, pathToUpdate, t) ==
    [p \in DOMAIN oh \cup {pathToUpdate} |-> IF p = pathToUpdate THEN t ELSE oh[p]]

\* ------------------------------------------------------------------------
\* Self-healing of the application branch
\* ------------------------------------------------------------------------

\* a classification that takes every non-empty error for target-missing
isAnyAppError(errorMsg) == errorMsg # <<>>

\* the classification of a launchApplication error as target-missing
isAppTargetMissing(errorMsg) ==
    \/ includes(errorMsg, <<"ShortcutFileMissing">>)
    \/ includes(errorMsg, <<"ShortcutTargetMissing">>)
    \/ includes(errorMsg, <<"AppNotFound">>)

\* the classification of a launchFile error as target-missing
isFileTargetMissing(errorMsg) ==
    \/ includes(errorMsg, <<"Path", "not", "found">>)
    \/ includes(errorMsg, <<"not", "found">>)

\* a filter that compares the raw strings
shouldKeepRaw(itemPath, pathToRemove) == itemPath # pathToRemove

\* whether the filters keep an item with this path when pathToRemove is pruned
shouldKeep(itemPath, pathToRemove) ==
    normalizedPathToRemove(itemPath) # normalizedPathToRemove(pathToRemove)

\* prev.filter(app => shouldKeep) on a list of application paths
pruneApps(list, pathToRemove) ==
    SelectSeq(list, LAMBDA p : shouldKeep(p, pathToRemove))

\* prev.filter(file => shouldKeep) on a list of history items
pruneItems(list, pathToRemove) ==
    SelectSeq(list, LAMBDA e : shouldKeep(e.path, pathToRemove))

\* ------------------------------------------------------------------------
\* The backend store (tauriApi commands)
\* ------------------------------------------------------------------------

\* addFileToHistory(path), performed: one use event, the store increments
\* use_count and stamps last_used
backendAddUse(hist, path, now) ==
    IF \E i \in DOMAIN hist : hist[i].path = path
    THEN [i \in DOMAIN hist |->
             IF hist[i].path = path
             THEN Entry(path, now, hist[i].use_count + 1)
             ELSE hist[i]]
    ELSE Append(hist, Entry(path, now, 1))

\* deleteFileHistory(path), performed
backendDeleteHistory(hist, path) == SelectSeq(hist, LAMBDA e : e.path # path)

\* removeAppFromIndex(path), performed
backendRemoveApp(index, path) == SelectSeq(index, LAMBDA p : p # path)

\* ------------------------------------------------------------------------
\* State
\* ------------------------------------------------------------------------

VARIABLES
    allFileHistoryCache,        \* allFileHistoryCacheRef.current (the mirror)
    allFileHistoryCacheLoaded,  \* allFileHistoryCacheLoadedRef.current
    openHistory,                \* raw path -> timestamp
    filteredFiles,              \* the displayed history items
    apps,                       \* application paths
    filteredApps,               \* the displayed application paths
    launchingAppPath,
    errorMessage,
    backendHistory,             \* the store's open_history list
    backendIndex,               \* the store's application index
    launches,                   \* handleLaunch invocations, by timestamp
    addLog,                     \* addFileToHistory calls issued, in order
    refreshes,                  \* refreshFileHistoryCache calls in flight
    utilsCall,                  \* the last application of a launcherUtils function
    escapeHook,                 \* the mounted useEscapeKeyWithPriority hook
    clientId,                   \* cachedId, the localStorage item and the calls of getClientId
    translation                 \* the state of the mounted TranslationWindow

cacheVars == <<allFileHistoryCache, allFileHistoryCacheLoaded>>

listVars == <<openHistory, filteredFiles, apps, filteredApps>>

uiVars == <<launchingAppPath, errorMessage>>

backendVars == <<backendHistory, backendIndex>>

\* what handleLaunch does not touch
sideVars == <<utilsCall, escapeHook, clientId, translation>>

vars == <<allFileHistoryCache, allFileHistoryCacheLoaded, openHistory,
          filteredFiles, apps, filteredApps, launchingAppPath, errorMessage,
          backendHistory, backendIndex, launches, addLog, refreshes,
          utilsCall, escapeHook, clientId, translation>>

\* the launcher starts either before the mirror was hydrated or with the
\* mirror and the displayed lists hydrated from the store
Init ==
    /\ backendHistory = InitialHistory
    /\ backendIndex = InitialApps
    /\ \/ /\ allFileHistoryCache = <<>>
          /\ allFileHistoryCacheLoaded = FALSE
          /\ filteredFiles = <<>>
       \/ /\ allFileHistoryCache = InitialHistory
          /\ allFileHistoryCacheLoaded = TRUE
          /\ filteredFiles = InitialHistory
    /\ openHistory = <<>>
    /\ apps = InitialApps
    /\ filteredApps = InitialApps
    /\ launchingAppPath = null
    /\ errorMessage = null
    /\ launches = <<>>
    /\ addLog = <<>>
    /\ refreshes = {}
    /\ utilsCall = [fn |-> "none"]
    /\ escapeHook = [listening |-> FALSE, handlers |-> 0, presses |-> 0]
    /\ clientId = [cachedId |-> <<>>, item |-> <<>>, generated |-> 0, calls |-> <<>>]
    /\ translation = [sourceText |-> <<>>, sourceLang |-> "auto", targetLang |-> "en",
                      translatedText |-> <<>>, isTranslating |-> FALSE,
                      error |-> FALSE, detectedLang |-> <<>>, timer |-> FALSE,
                      running |-> {}, started |-> 0]

\* the addFileToHistory calls not settled yet
pendingAdds == {k \in DOMAIN addLog : addLog[k].status = "pending"}

\* the invocations suspended at an await
Active == {i \in DOMAIN launches : launches[i].pc # "done"}

\* a refreshFileHistoryCache call: the invocation that started it and where,
\* the number of invocations begun by then, and the list it has fetched
Refresh(id, origin, since, phase, snap) ==
    [id |-> id, origin |-> origin, since |-> since, phase |-> phase, snap |-> snap]

\* ------------------------------------------------------------------------
\* handleLaunch, up to its first await
\* ------------------------------------------------------------------------

\* the await the dispatch of a candidate reaches first ("done": it returns)
firstAwait(c) ==
    IF isHttpUrl(toLowerCase(c.path)) THEN "openUrl"
    ELSE IF c.type = "ai" /\ c.payload # NoPayload THEN "done"
    ELSE IF c.type = "url" /\ c.payload # NoPayload THEN "openUrl"
    ELSE IF c.type = "search" THEN "openUrl"
    ELSE IF c.type = "email" /\ c.payload # NoPayload THEN "clipboard"
    ELSE IF c.type = "json_formatter" /\ c.payload # NoPayload THEN "showJson"
    ELSE IF c.type = "history" THEN "showShortcuts"
    ELSE IF c.type = "settings" THEN "settingsHide"
    ELSE IF c.type = "app" /\ c.payload # NoPayload THEN "timer"
    ELSE IF c.type = "file" /\ c.payload # NoPayload THEN "launchFile"
    ELSE IF c.type = "everything" /\ c.payload # NoPayload
         THEN IF isHttpUrl(toLowerCase(c.payload)) THEN "openUrl" ELSE "launchFile"
    ELSE IF c.type = "memo" /\ c.payload # NoPayload THEN "done"
    ELSE IF c.type = "plugin" /\ c.payload # NoPayload THEN "plugin"
    ELSE "hide"

\* the argument of the tauriApi.openUrl call the dispatch makes first:
\* result.path for a link and for a search, result.url for a url, the
\* path of the everything result otherwise
openUrlArgument(c) ==
    IF isHttpUrl(toLowerCase(c.path)) THEN c.path
    ELSE IF c.type = "url" THEN c.payload
    ELSE IF c.type = "search" THEN c.path
    ELSE c.payload

\* the host action invoked before the first await: the one of the call that
\* is awaited, or the opening of the memo dialog (setIsMemoModalOpen(true))
firstHostAction(c) ==
    LET pc == firstAwait(c)
    IN  IF pc = "openUrl" THEN <<"openUrl">>
        ELSE IF pc = "clipboard" THEN <<"writeText">>
        ELSE IF pc = "showJson" THEN <<"showJsonFormatterWindow">>
        ELSE IF pc = "showShortcuts" THEN <<"showShortcutsConfig">>
        ELSE IF pc = "launchFile" THEN <<"launchFile">>
        ELSE IF pc = "plugin" THEN <<"executePlugin">>
        ELSE IF pc = "done" /\ c.type = "memo" THEN <<"memoModal">>
        ELSE <<>>

\* the addFileToHistory calls the recording step issues for a path
addCallsOfRecording(path) == <<path>>

\* a file branch that records the use again
addAgainAfterLaunchFile(path) == <<path>>

\* the addFileToHistory calls the file branch issues after launchFile resolved
addCallsAfterLaunchFile(path) == <<>>

\* a self-healing that awaits the index removal before it deletes the history
selfHealCallsInSequence == [rem |-> "pending", del |-> "none"]

\* the deletions the application self-healing issues before it awaits
selfHealCalls == [rem |-> "pending", del |-> "pending"]

\* calls that are put in front of the ones issued before
IssueAddsFirst(id, paths) ==
    addLog' = [k \in DOMAIN paths |->
                  [id |-> id, path |-> paths[k], status |-> "pending"]] \o addLog

\* addLog after the launch id issued addFileToHistory(p) for each p of paths
IssueAdds(id, paths) ==
    addLog' = addLog \o [k \in DOMAIN paths |->
                            [id |-> id, path |-> paths[k], status |-> "pending"]]

\* handleLaunch(options) with options.result = c, run to its first await
HandleLaunch(c) ==
    LET t == Len(launches) + 1
        pc == firstAwait(c)
    IN  /\ Cardinality(Active) < MaxActive
        /\ IF shouldUpdateHistory(c)
           THEN /\ openHistory' = touchOpenHistory(openHistory, c.path, t)
                /\ allFileHistoryCache' = recordInCache(allFileHistoryCache, c.path, t)
                /\ filteredFiles' =
                       IF existingItem(allFileHistoryCache, c.path)
                       THEN touchFilteredFiles(filteredFiles, c.path, t)
                       ELSE filteredFiles
                /\ allFileHistoryCacheLoaded' = TRUE
                /\ IssueAdds(t, addCallsOfRecording(c.path))
           ELSE UNCHANGED <<openHistory, allFileHistoryCache, filteredFiles,
                            allFileHistoryCacheLoaded, addLog>>
        /\ launchingAppPath' = IF pc = "timer" THEN c.payload ELSE launchingAppPath
        /\ launches' = Append(launches,
               [cand |-> c, pc |-> pc, err |-> null, rem |-> "none", del |-> "none",
                staleError |-> errorMessage \notin {null, <<>>},
                acts |-> firstHostAction(c),
                opened |-> IF pc = "openUrl" THEN openUrlArgument(c) ELSE null,
                hides |-> IF pc = "hide" THEN 1 ELSE 0,
                end |-> IF pc = "done" THEN "success" ELSE "running"])
        /\ UNCHANGED <<apps, filteredApps, errorMessage, backendVars, refreshes,
                       sideVars>>

\* ------------------------------------------------------------------------
\* handleLaunch, resumed when the awaited call settles
\* ------------------------------------------------------------------------

\* launches with invocation i advanced to pc (and to its end when it returns)
Goto(i, pc, end) == [launches EXCEPT ![i].pc = pc, ![i].end = end]

\* launches with invocation i at await hideLauncherAndResetState()
GotoHide(i) ==
    [launches EXCEPT ![i].pc = "hide", ![i].hides = launches[i].hides + 1]

\* the outer catch: the message is shown unless the errorMessage the
\* invocation was given is already set
outerCatch(i, msg) == IF launches[i].staleError THEN errorMessage ELSE msg

\* an everything branch that goes on to launchFile after opening the link
OpenUrlResolveFallsThrough(i) ==
    /\ launches[i].pc = "openUrl"
    /\ launches' = IF launches[i].cand.type = "everything"
                   THEN [Goto(i, "launchFile", "running") EXCEPT
                            ![i].acts = Append(launches[i].acts, "launchFile")]
                   ELSE GotoHide(i)
    /\ UNCHANGED <<cacheVars, listVars, uiVars, backendVars, addLog, refreshes>>

\* await tauriApi.openUrl(...) resolves: hideLauncherAndResetState is awaited
OpenUrlResolve(i) ==
    /\ launches[i].pc = "openUrl"
    /\ launches' = GotoHide(i)
    /\ UNCHANGED <<cacheVars, listVars, uiVars, backendVars, addLog, refreshes>>

\* a failure of openUrl that is shown and followed by the hiding of the window
OpenUrlRejectThenHides(i, msg) ==
    /\ launches[i].pc = "openUrl"
    /\ errorMessage' = outerCatch(i, msg)
    /\ launches' = [GotoHide(i) EXCEPT ![i].err = msg]
    /\ UNCHANGED <<cacheVars, listVars, launchingAppPath, backendVars, addLog,
                   refreshes>>

\* await tauriApi.openUrl(...) rejects: the outer catch
OpenUrlReject(i, msg) ==
    /\ launches[i].pc = "openUrl"
    /\ errorMessage' = outerCatch(i, msg)
    /\ launches' = [Goto(i, "done", "error") EXCEPT ![i].err = msg]
    /\ UNCHANGED <<cacheVars, listVars, launchingAppPath, backendVars, addLog,
                   refreshes>>

\* await hideLauncherAndResetState() resolves: handleLaunch returns
HideResolve(i) ==
    /\ launches[i].pc = "hide"
    /\ launches' = Goto(i, "done", "success")
    /\ UNCHANGED <<cacheVars, listVars, uiVars, backendVars, addLog, refreshes>>

\* the 200 ms animation timer fires: launchApplication is invoked
AnimationDone(i) ==
    /\ launches[i].pc = "timer"
    /\ launches' = [Goto(i, "launchApp", "running") EXCEPT
                        ![i].acts = Append(launches[i].acts, "launchApplication")]
    /\ UNCHANGED <<cacheVars, listVars, uiVars, backendVars, addLog, refreshes>>

\* an application branch that returns after the launch
LaunchApplicationResolveReturns(i) ==
    /\ launches[i].pc = "launchApp"
    /\ launchingAppPath' = null
    /\ launches' = Goto(i, "done", "success")
    /\ UNCHANGED <<cacheVars, listVars, errorMessage, backendVars, addLog,
                   refreshes>>

\* await tauriApi.launchApplication(result.app) resolves
LaunchApplicationResolve(i) ==
    /\ launches[i].pc = "launchApp"
    /\ launchingAppPath' = null
    /\ launches' = GotoHide(i)
    /\ UNCHANGED <<cacheVars, listVars, errorMessage, backendVars, addLog,
                   refreshes>>

\* a catch of the application branch that leaves the launch animation on
LaunchApplicationRejectKeepsPath(i, errorMsg) ==
    /\ launches[i].pc = "launchApp"
    /\ IF isAppTargetMissing(errorMsg)
       THEN /\ launches' = [Goto(i, "selfHeal", "running") EXCEPT
                               ![i].err = errorMsg,
                               ![i].rem = selfHealCalls.rem,
                               ![i].del = selfHealCalls.del]
            /\ UNCHANGED errorMessage
       ELSE /\ launches' = [Goto(i, "done", "error") EXCEPT ![i].err = errorMsg]
            /\ errorMessage' = errorMsg
    /\ UNCHANGED <<cacheVars, listVars, launchingAppPath, backendVars, addLog,
                   refreshes>>

\* await tauriApi.launchApplication(result.app) rejects with errorMsg
LaunchApplicationReject(i, errorMsg) ==
    /\ launches[i].pc = "launchApp"
    /\ launchingAppPath' = null
    /\ IF isAppTargetMissing(errorMsg)
       THEN /\ launches' = [Goto(i, "selfHeal", "running") EXCEPT
                               ![i].err = errorMsg,
                               ![i].rem = selfHealCalls.rem,
                               ![i].del = selfHealCalls.del]
            /\ UNCHANGED errorMessage
       ELSE /\ launches' = [Goto(i, "done", "error") EXCEPT ![i].err = errorMsg]
            /\ errorMessage' = errorMsg
    /\ UNCHANGED <<cacheVars, listVars, backendVars, addLog, refreshes>>

\* a pruning that takes the key of the path out of openHistory as well
PruneLocallyAndIndex(i, ls) ==
    LET pathToRemove == launches[i].cand.payload
    IN  /\ apps' = pruneApps(apps, pathToRemove)
        /\ filteredApps' = pruneApps(filteredApps, pathToRemove)
        /\ filteredFiles' = pruneItems(filteredFiles, pathToRemove)
        /\ allFileHistoryCache' = pruneItems(allFileHistoryCache, pathToRemove)
        /\ openHistory' = [q \in DOMAIN openHistory \ {launches[i].cand.path} |->
                               openHistory[q]]
        /\ errorMessage' = launches[i].err \o IndexPrunedNotice
        /\ launches' = [ls EXCEPT ![i].pc = "done", ![i].end = "pruned"]
        /\ UNCHANGED <<allFileHistoryCacheLoaded, launchingAppPath>>

\* the code after await Promise.all([...]) resolved: the path is filtered out
\* of apps, filteredApps, filteredFiles and the mirror, and the notice is shown
PruneLocally(i, ls) ==
    LET pathToRemove == launches[i].cand.payload
    IN  /\ apps' = pruneApps(apps, pathToRemove)
        /\ filteredApps' = pruneApps(filteredApps, pathToRemove)
        /\ filteredFiles' = pruneItems(filteredFiles, pathToRemove)
        /\ allFileHistoryCache' = pruneItems(allFileHistoryCache, pathToRemove)
        /\ errorMessage' = launches[i].err \o IndexPrunedNotice
        /\ launches' = [ls EXCEPT ![i].pc = "done", ![i].end = "pruned"]
        /\ UNCHANGED <<openHistory, allFileHistoryCacheLoaded, launchingAppPath>>

\* tauriApi.removeAppFromIndex(pathToRemove) resolves; Promise.all resolves
\* when deleteFileHistory(...).catch(...) has settled too
RemoveAppFromIndexResolve(i) ==
    /\ launches[i].pc = "selfHeal"
    /\ launches[i].rem = "pending"
    /\ backendIndex' = backendRemoveApp(backendIndex, launches[i].cand.payload)
    /\ IF launches[i].del \in {"ok", "failed"}
       THEN PruneLocally(i, [launches EXCEPT ![i].rem = "ok"])
       ELSE /\ launches' = [launches EXCEPT ![i].rem = "ok"]
            /\ UNCHANGED <<cacheVars, listVars, uiVars>>
    /\ UNCHANGED <<backendHistory, addLog, refreshes>>

\* tauriApi.removeAppFromIndex(pathToRemove) rejects: Promise.all rejects and
\* catch (deleteError) shows the original error
RemoveAppFromIndexReject(i) ==
    /\ launches[i].pc = "selfHeal"
    /\ launches[i].rem = "pending"
    /\ errorMessage' = launches[i].err
    /\ launches' = [Goto(i, "done", "healFailed") EXCEPT ![i].rem = "failed"]
    /\ UNCHANGED <<cacheVars, listVars, launchingAppPath, backendVars, addLog,
                   refreshes>>

\* tauriApi.deleteFileHistory(pathToRemove) of the self-healing settles (ok:
\* the store deleted the record; otherwise .catch absorbs the rejection)
DeleteFileHistorySettle(i, ok) ==
    /\ launches[i].cand.type = "app"
    /\ launches[i].del = "pending"
    /\ backendHistory' =
           IF ok THEN backendDeleteHistory(backendHistory, launches[i].cand.payload)
           ELSE backendHistory
    /\ LET ls == [launches EXCEPT ![i].del = IF ok THEN "ok" ELSE "failed"]
       IN  IF launches[i].pc = "selfHeal" /\ launches[i].rem = "ok"
           THEN PruneLocally(i, ls)
           ELSE /\ launches' = ls
                /\ UNCHANGED <<cacheVars, listVars, uiVars>>
    /\ UNCHANGED <<backendIndex, addLog, refreshes>>

\* the notices of the file branch
FileMissingNotice(path) == <<"FileMissing:">> \o path

HistoryPrunedNotice == <<"\n\n", "HistoryPruned">>

\* await tauriApi.launchFile(path) resolves: refreshFileHistoryCache is
\* started without being awaited, then hideLauncherAndResetState is awaited
LaunchFileResolve(i) ==
    /\ launches[i].pc = "launchFile"
    /\ IssueAdds(i, addCallsAfterLaunchFile(launches[i].cand.payload))
    /\ refreshes' = refreshes \cup {Refresh(i, "fileOk", Len(launches), "invoked", <<>>)}
    /\ launches' = GotoHide(i)
    /\ UNCHANGED <<cacheVars, listVars, uiVars, backendVars>>

\* await tauriApi.launchFile(path) rejects with errorMsg
LaunchFileReject(i, errorMsg) ==
    /\ launches[i].pc = "launchFile"
    /\ IF isFileTargetMissing(errorMsg)
       THEN IF launches[i].cand.type = "file"
            THEN /\ launches' = [Goto(i, "fileDelete", "running") EXCEPT
                                    ![i].err = errorMsg, ![i].del = "pending"]
                 /\ UNCHANGED errorMessage
            ELSE /\ launches' = [Goto(i, "done", "missing") EXCEPT ![i].err = errorMsg]
                 /\ errorMessage' = FileMissingNotice(launches[i].cand.payload)
       ELSE /\ launches' = [Goto(i, "done", "error") EXCEPT ![i].err = errorMsg]
            /\ errorMessage' = outerCatch(i, errorMsg)
    /\ UNCHANGED <<cacheVars, listVars, launchingAppPath, backendVars, addLog,
                   refreshes>>

\* a file branch that starts the refresh without awaiting it and goes on
\* to the search
FileDeleteResolveNoWait(i) ==
    /\ launches[i].pc = "fileDelete"
    /\ backendHistory' = backendDeleteHistory(backendHistory, launches[i].cand.payload)
    /\ refreshes' = refreshes \cup {Refresh(i, "fileOk", Len(launches), "invoked", <<>>)}
    /\ launches' = [Goto(i, "fileSearch", "running") EXCEPT ![i].del = "ok"]
    /\ UNCHANGED <<cacheVars, listVars, uiVars, backendIndex, addLog>>

\* await tauriApi.deleteFileHistory(filePath) of the file branch resolves:
\* refreshFileHistoryCache is awaited next
FileDeleteResolve(i) ==
    /\ launches[i].pc = "fileDelete"
    /\ backendHistory' = backendDeleteHistory(backendHistory, launches[i].cand.payload)
    /\ refreshes' = refreshes \cup {Refresh(i, "fileHeal", Len(launches), "invoked", <<>>)}
    /\ launches' = [Goto(i, "fileRefresh", "running") EXCEPT ![i].del = "ok"]
    /\ UNCHANGED <<cacheVars, listVars, uiVars, backendIndex, addLog>>

\* await tauriApi.deleteFileHistory(filePath) of the file branch rejects
FileDeleteReject(i) ==
    /\ launches[i].pc = "fileDelete"
    /\ errorMessage' = FileMissingNotice(launches[i].cand.payload)
                           \o <<"\n\n", "Error:">> \o launches[i].err
    /\ launches' = [Goto(i, "done", "healFailed") EXCEPT ![i].del = "failed"]
    /\ UNCHANGED <<cacheVars, listVars, launchingAppPath, backendVars, addLog,
                   refreshes>>

\* await searchFileHistoryWrapper(...) of the file branch resolves
FileSearchResolve(i) ==
    /\ launches[i].pc = "fileSearch"
    /\ errorMessage' = FileMissingNotice(launches[i].cand.payload) \o HistoryPrunedNotice
    /\ launches' = Goto(i, "done", "pruned")
    /\ UNCHANGED <<cacheVars, listVars, launchingAppPath, backendVars, addLog,
                   refreshes>>

\* a rejection that leaves handleLaunch: the promise it returned rejects
ThrowToCaller(i, msg) ==
    /\ launches' = [Goto(i, "rejected", "error") EXCEPT ![i].err = msg]
    /\ UNCHANGED <<cacheVars, listVars, uiVars, backendVars, addLog, refreshes>>

\* an awaited call of a branch without a try of its own rejects with msg: the
\* outer catch
ThrowToOuterCatch(i, msg) ==
    /\ errorMessage' = outerCatch(i, msg)
    /\ launches' = [Goto(i, "done", "error") EXCEPT ![i].err = msg]
    /\ UNCHANGED <<cacheVars, listVars, launchingAppPath, backendVars, addLog,
                   refreshes>>

\* await navigator.clipboard.writeText(result.email) resolves: the success
\* message is shown and the launcher stays open
ClipboardResolve(i) ==
    /\ launches[i].pc = "clipboard"
    /\ launches' = Goto(i, "done", "success")
    /\ UNCHANGED <<cacheVars, listVars, uiVars, backendVars, addLog, refreshes>>

\* await navigator.clipboard.writeText(result.email) rejects: the inner catch
\* shows its fixed text
ClipboardReject(i, msg) ==
    /\ launches[i].pc = "clipboard"
    /\ errorMessage' = MsgCopyFailed
    /\ launches' = [Goto(i, "done", "error") EXCEPT ![i].err = msg]
    /\ UNCHANGED <<cacheVars, listVars, launchingAppPath, backendVars, addLog,
                   refreshes>>

\* await tauriApi.showJsonFormatterWindow() resolves: the launcher is hidden
ShowJsonResolve(i) ==
    /\ launches[i].pc = "showJson"
    /\ launches' = GotoHide(i)
    /\ UNCHANGED <<cacheVars, listVars, uiVars, backendVars, addLog, refreshes>>

\* await tauriApi.showJsonFormatterWindow() rejects
ShowJsonReject(i, msg) ==
    /\ launches[i].pc = "showJson"
    /\ ThrowToOuterCatch(i, msg)

\* await tauriApi.showShortcutsConfig() resolves: the launcher stays open
ShowShortcutsResolve(i) ==
    /\ launches[i].pc = "showShortcuts"
    /\ launches' = Goto(i, "done", "success")
    /\ UNCHANGED <<cacheVars, listVars, uiVars, backendVars, addLog, refreshes>>

\* await tauriApi.showShortcutsConfig() rejects
ShowShortcutsReject(i, msg) ==
    /\ launches[i].pc = "showShortcuts"
    /\ ThrowToOuterCatch(i, msg)

\* settings: await tauriApi.hideLauncher() resolves, showPluginListWindow is
\* invoked
SettingsHideResolve(i) ==
    /\ launches[i].pc = "settingsHide"
    /\ launches' = [Goto(i, "settingsShow", "running") EXCEPT
                        ![i].acts = Append(launches[i].acts, "showPluginListWindow")]
    /\ UNCHANGED <<cacheVars, listVars, uiVars, backendVars, addLog, refreshes>>

\* settings: await tauriApi.showPluginListWindow() resolves
SettingsShowResolve(i) ==
    /\ launches[i].pc = "settingsShow"
    /\ launches' = Goto(i, "done", "success")
    /\ UNCHANGED <<cacheVars, listVars, uiVars, backendVars, addLog, refreshes>>

\* settings: hideLauncher or showPluginListWindow rejects; the inner catch
\* raises an alert and sets no error message
SettingsReject(i, msg) ==
    /\ launches[i].pc \in {"settingsHide", "settingsShow"}
    /\ launches' = [Goto(i, "done", IF launches[i].pc = "settingsHide"
                                     THEN "hideFailed" ELSE "alerted")
                        EXCEPT ![i].err = msg]
    /\ UNCHANGED <<cacheVars, listVars, uiVars, backendVars, addLog, refreshes>>

\* await executePlugin(result.plugin.id, pluginContext) resolves: query,
\* selection and context menu are reset, the launcher stays open
PluginResolve(i) ==
    /\ launches[i].pc = "plugin"
    /\ launches' = Goto(i, "done", "success")
    /\ UNCHANGED <<cacheVars, listVars, uiVars, backendVars, addLog, refreshes>>

\* await executePlugin(...) rejects
PluginReject(i, msg) ==
    /\ launches[i].pc = "plugin"
    /\ ThrowToOuterCatch(i, msg)

\* ------------------------------------------------------------------------
\* Background persistence and reconciliation
\* ------------------------------------------------------------------------

\* the store performs addFileToHistory call k and the promise resolves:
\* .then starts refreshFileHistoryCache
AddFileToHistoryResolve(k) ==
    /\ k \in pendingAdds
    /\ backendHistory' = backendAddUse(backendHistory, addLog[k].path, Len(launches))
    /\ addLog' = [addLog EXCEPT ![k].status = "ok"]
    /\ refreshes' = refreshes \cup {Refresh(addLog[k].id, "addOk", Len(launches), "invoked", <<>>)}
    /\ UNCHANGED <<cacheVars, listVars, uiVars, backendIndex, launches>>

\* a .catch that shows the failure to the user
AddFileToHistoryRejectShown(k) ==
    /\ k \in pendingAdds
    /\ addLog' = [addLog EXCEPT ![k].status = "failed"]
    /\ errorMessage' = MsgAccessDenied
    /\ refreshes' = refreshes \cup {Refresh(addLog[k].id, "addFail", Len(launches), "invoked", <<>>)}
    /\ UNCHANGED <<cacheVars, listVars, launchingAppPath, backendVars, launches>>

\* a .catch that only logs the failure
AddFileToHistoryRejectLogged(k) ==
    /\ k \in pendingAdds
    /\ addLog' = [addLog EXCEPT ![k].status = "failed"]
    /\ UNCHANGED <<cacheVars, listVars, uiVars, backendVars, launches, refreshes>>

\* addFileToHistory call k rejects: .catch starts refreshFileHistoryCache
AddFileToHistoryReject(k) ==
    /\ k \in pendingAdds
    /\ addLog' = [addLog EXCEPT ![k].status = "failed"]
    /\ refreshes' = refreshes \cup {Refresh(addLog[k].id, "addFail", Len(launches), "invoked", <<>>)}
    /\ UNCHANGED <<cacheVars, listVars, uiVars, backendVars, launches>>

\* refreshFileHistoryCache: the store answers the request for the full list
RefreshRead(r) ==
    /\ r \in refreshes
    /\ r.phase = "invoked"
    /\ refreshes' = (refreshes \ {r}) \cup {Refresh(r.id, r.origin, r.since, "read", backendHistory)}
    /\ UNCHANGED <<cacheVars, listVars, uiVars, backendVars, launches, addLog>>

\* the mirror after refreshFileHistoryCache received the list snap
reconciledCache(cache, snap) == snap

\* refreshFileHistoryCache: the fetched list replaces the mirror; the file
\* branch that awaited it goes on to searchFileHistoryWrapper
RefreshApply(r) ==
    /\ r \in refreshes
    /\ r.phase = "read"
    /\ allFileHistoryCache' = reconciledCache(allFileHistoryCache, r.snap)
    /\ allFileHistoryCacheLoaded' = TRUE
    /\ refreshes' = refreshes \ {r}
    /\ launches' = IF r.origin = "fileHeal"
                   THEN Goto(r.id, "fileSearch", "running")
                   ELSE launches
    /\ UNCHANGED <<listVars, uiVars, backendVars, addLog>>

\* ------------------------------------------------------------------------
\* Specifications
\* ------------------------------------------------------------------------

\* the steps that resume a suspended handleLaunch of an application
AppSteps ==
    /\ UNCHANGED sideVars
    /\ \E i \in DOMAIN launches :
        \/ AnimationDone(i)
        \/ LaunchApplicationResolve(i)
        \/ \E m \in AppErrors : LaunchApplicationReject(i, m)
        \/ RemoveAppFromIndexResolve(i)
        \/ RemoveAppFromIndexReject(i)
        \/ \E ok \in BOOLEAN : DeleteFileHistorySettle(i, ok)
        \/ HideResolve(i)

\* the steps that resume a suspended handleLaunch of a file
FileSteps ==
    /\ UNCHANGED sideVars
    /\ \E i \in DOMAIN launches :
        \/ LaunchFileResolve(i)
        \/ \E m \in FileErrors : LaunchFileReject(i, m)
        \/ FileDeleteResolve(i)
        \/ FileDeleteReject(i)
        \/ FileSearchResolve(i)

\* the background steps
BackgroundSteps ==
    /\ UNCHANGED sideVars
    /\ \/ \E k \in DOMAIN addLog : AddFileToHistoryResolve(k)
       \/ \E k \in DOMAIN addLog : AddFileToHistoryReject(k)
       \/ \E r \in refreshes : RefreshRead(r)
       \/ \E r \in refreshes : RefreshApply(r)

\* at most n invocations of handleLaunch, each for a candidate of C
Launch(C, n) ==
    /\ Len(launches) < n
    /\ \E c \in C : HandleLaunch(c)

\* application launches with self-healing, persistence and reconciliation
HealCandidates == {AppUpper}

NextHeal ==
    \/ Launch(HealCandidates, MaxLaunches)
    \/ AppSteps
    \/ BackgroundSteps

SpecHeal == Init /\ [][NextHeal]_vars

\* file launches (and a memo, which is not recorded) with persistence and
\* reconciliation
FileCandidates == {FileF, MemoM}

NextFile ==
    \/ Launch(FileCandidates, MaxLaunches)
    \/ FileSteps
    \/ UNCHANGED sideVars /\ \E i \in DOMAIN launches : HideResolve(i)
    \/ BackgroundSteps

SpecFile == Init /\ [][NextFile]_vars

\* recordings without reconciliation: files are opened one after the other,
\* the persistence calls settle, no refreshFileHistoryCache completes
RecordCandidates == {FileAppUpper, FileAppLower, FileF, FileBlankDir}

NextRecord ==
    \/ Launch(RecordCandidates, MaxRecordings)
    \/ UNCHANGED sideVars /\ \E i \in DOMAIN launches : LaunchFileResolve(i)
    \/ UNCHANGED sideVars /\ \E i \in DOMAIN launches : HideResolve(i)
    \/ UNCHANGED sideVars /\ \E k \in DOMAIN addLog : AddFileToHistoryResolve(k)
    \/ UNCHANGED sideVars /\ \E k \in DOMAIN addLog : AddFileToHistoryReject(k)
    \/ UNCHANGED sideVars /\ \E r \in refreshes : RefreshRead(r)

SpecRecord == Init /\ [][NextRecord]_vars

\* the scenario of three uses one after the other, each of another URL
ThreeUses == <<UrlZ, UrlX, UrlY>>

UrlSteps ==
    /\ UNCHANGED sideVars
    /\ \E i \in DOMAIN launches :
        \/ OpenUrlResolve(i)
        \/ OpenUrlReject(i, MsgAccessDenied)
        \/ HideResolve(i)

NextUses ==
    \/ /\ Len(launches) < Len(ThreeUses)
       /\ HandleLaunch(ThreeUses[Len(launches) + 1])
    \/ UrlSteps
    \/ BackgroundSteps

SpecUses == Init /\ [][NextUses]_vars

\* launches of candidates of every type, well-formed or not, also with an
\* error message of an earlier launch on display
DispatchCandidates ==
    {AppUpper, AppCaps, AppRecent, AppUwp, AppNoPath, FileF, EverythingF,
     EverythingUrl, UrlX, SearchQ, AiA, EmailE, JsonJ, HistoryH, SettingsS,
     MemoM, PluginP, FileNoPayload, AppNoPayload, UrlNoPayload, MemoNoPayload}
        \cup LinkCandidates

InitDispatch ==
    /\ backendHistory = InitialHistory
    /\ backendIndex = InitialApps
    /\ \/ /\ allFileHistoryCache = <<>>
          /\ allFileHistoryCacheLoaded = FALSE
          /\ filteredFiles = <<>>
       \/ /\ allFileHistoryCache = InitialHistory
          /\ allFileHistoryCacheLoaded = TRUE
          /\ filteredFiles = InitialHistory
    /\ openHistory = <<>>
    /\ apps = InitialApps
    /\ filteredApps = InitialApps
    /\ launchingAppPath = null
    /\ errorMessage \in {null, MsgStale}
    /\ launches = <<>>
    /\ addLog = <<>>
    /\ refreshes = {}
    /\ utilsCall = [fn |-> "none"]
    /\ escapeHook = [listening |-> FALSE, handlers |-> 0, presses |-> 0]
    /\ clientId = [cachedId |-> <<>>, item |-> <<>>, generated |-> 0, calls |-> <<>>]
    /\ translation = [sourceText |-> <<>>, sourceLang |-> "auto", targetLang |-> "en",
                      translatedText |-> <<>>, isTranslating |-> FALSE,
                      error |-> FALSE, detectedLang |-> <<>>, timer |-> FALSE,
                      running |-> {}, started |-> 0]

\* the steps that resume a suspended handleLaunch of the other types
ViewSteps ==
    /\ UNCHANGED sideVars
    /\ \E i \in DOMAIN launches :
        \/ OpenUrlResolve(i)
        \/ OpenUrlReject(i, MsgAccessDenied)
        \/ ClipboardResolve(i)
        \/ ClipboardReject(i, MsgAccessDenied)
        \/ ShowJsonResolve(i)
        \/ ShowJsonReject(i, MsgAccessDenied)
        \/ ShowShortcutsResolve(i)
        \/ ShowShortcutsReject(i, MsgAccessDenied)
        \/ SettingsHideResolve(i)
        \/ SettingsShowResolve(i)
        \/ SettingsReject(i, MsgAccessDenied)
        \/ PluginResolve(i)
        \/ PluginReject(i, MsgAccessDenied)

NextDispatch ==
    \/ Launch(DispatchCandidates, MaxLaunches)
    \/ AppSteps
    \/ FileSteps
    \/ ViewSteps
    \/ BackgroundSteps

SpecDispatch == InitDispatch /\ [][NextDispatch]_vars

\* the same launcher when every call that was awaited or left running
\* settles: a continuation that stays enabled is taken
SpecDispatchLive ==
    /\ InitDispatch
    /\ [][NextDispatch]_vars
    /\ WF_vars(AppSteps)
    /\ WF_vars(FileSteps)
    /\ WF_vars(ViewSteps)
    /\ WF_vars(BackgroundSteps)

\* ------------------------------------------------------------------------
\* Claims
\* ------------------------------------------------------------------------

\* the identity key of a history entry: trailing separators trimmed, lower
\* case, separators unified
historyKey(path) == normalizePathForHistory(stripTrailingSeparators(path))

\* no two entries of the list have the same identity key
NoDuplicateKeys(list) ==
    \A i, j \in DOMAIN list :
        i # j => historyKey(list[i].path) # historyKey(list[j].path)

\* whether the list holds an entry of the path, compared without regard to
\* letter case and to the kind of separator
Holds(list, path) ==
    \E i \in DOMAIN list :
        normalizedPathToRemove(list[i].path) = normalizedPathToRemove(path)

\* the paths of the addFileToHistory calls invocation i issued, in order
addCallsOf(i) ==
    LET mine == SelectSeq(addLog, LAMBDA a : a.id = i)
    IN  [k \in DOMAIN mine |-> mine[k].path]

\* a refreshFileHistoryCache call replaces the mirror in this step
ReconcileStep == \E r \in refreshes : r.phase = "read" /\ r \notin refreshes'

\* C1: starting from a mirror without duplicates, recordings alone (no
\* reconcile in between) never leave two entries in the mirror whose paths
\* have the same identity key; a path whose key matches an existing entry
\* updates that entry.
C1_MirrorHasNoDuplicateKeys == NoDuplicateKeys(allFileHistoryCache)

\* every entry of the list after the step has the use_count the entry of that
\* path had before it; fresh says what an entry of a new path may carry
UseCountsKept(before, after, fresh(_)) ==
    \A i \in DOMAIN after :
        IF \E j \in DOMAIN before : before[j].path = after[i].path
        THEN \E j \in DOMAIN before :
                 /\ before[j].path = after[i].path
                 /\ before[j].use_count = after[i].use_count
        ELSE fresh(after[i])

\* C2: a step that is not the completion of a reconcile leaves the use_count
\* of every entry of the mirror and of filteredFiles as it was; an entry it
\* adds to the mirror has use_count 0, and it adds none to filteredFiles.
C2_UseCountOnlyByReconcile ==
    [][ReconcileStep
        \/ /\ UseCountsKept(allFileHistoryCache, allFileHistoryCache',
                            LAMBDA e : e.use_count = 0)
           /\ UseCountsKept(filteredFiles, filteredFiles', LAMBDA e : FALSE)]_vars

\* C2 witness: the optimistic update touched the stored entry of the launched
\* application (last_used is the launch's timestamp) and its use_count is
\* still the store's, while the persistence call is pending
C2_Witness ==
    /\ pendingAdds # {}
    /\ \E i \in DOMAIN allFileHistoryCache :
           /\ allFileHistoryCache[i].last_used = 1
           /\ allFileHistoryCache[i].use_count = 2
    /\ \E i \in DOMAIN filteredFiles :
           /\ filteredFiles[i].last_used = 1
           /\ filteredFiles[i].use_count = 2

\* C3: every handleLaunch invocation issues addFileToHistory exactly once,
\* with the candidate's path, when the policy accepts the candidate, and
\* never otherwise, whatever the host action does afterwards.
C3_OneAddPerAcceptedLaunch ==
    \A i \in DOMAIN launches :
        addCallsOf(i) = IF shouldUpdateHistory(launches[i].cand)
                        THEN <<launches[i].cand.path>>
                        ELSE <<>>

\* C3 witness: a file launch ended after a target-missing failure and its
\* self-healing, having issued one addFileToHistory call
C3_Witness ==
    \E i \in DOMAIN launches :
        /\ launches[i].end = "pruned"
        /\ launches[i].cand.type = "file"
        /\ Len(addCallsOf(i)) = 1

\* the target-missing patterns of an application launch
MatchesAppMissingPattern(msg) ==
    \E t \in {"ShortcutFileMissing", "ShortcutTargetMissing", "AppNotFound"} :
        includes(msg, <<t>>)

\* invocation i returns in this step
Returns(i) == launches[i].pc # "done" /\ launches'[i].pc = "done"

\* C4: when launchApplication failed with a target-missing message and the
\* index removal succeeded, then at the return of handleLaunch the path is
\* in none of apps, filteredApps, filteredFiles and the mirror, and the
\* pruning notice is shown, also when deleteFileHistory rejected.
C4_PrunedEverywhereOnReturn ==
    [][\A i \in DOMAIN launches :
          (/\ Returns(i)
           /\ launches'[i].cand.type = "app"
           /\ MatchesAppMissingPattern(launches'[i].err)
           /\ launches'[i].rem = "ok")
          => LET path == launches[i].cand.payload
             IN  /\ \A k \in DOMAIN apps' :
                        normalizedPathToRemove(apps'[k]) # normalizedPathToRemove(path)
                 /\ \A k \in DOMAIN filteredApps' :
                        normalizedPathToRemove(filteredApps'[k])
                            # normalizedPathToRemove(path)
                 /\ ~Holds(filteredFiles', path)
                 /\ ~Holds(allFileHistoryCache', path)
                 /\ errorMessage' = launches'[i].err \o IndexPrunedNotice]_vars

\* C4 witness: a launch returned after pruning although deleteFileHistory
\* rejected; the mirror was hydrated and has lost the entry of the path
C4_Witness ==
    \E i \in DOMAIN launches :
        /\ launches[i].end = "pruned"
        /\ launches[i].del = "failed"
        /\ ~Holds(allFileHistoryCache, launches[i].cand.payload)
        /\ ~Holds(filteredFiles, launches[i].cand.payload)
        /\ filteredFiles # <<>>
        /\ Len(apps) < Len(InitialApps)
        /\ errorMessage = MsgAppNotFound \o IndexPrunedNotice

\* C5: the application self-healing invokes removeAppFromIndex and
\* deleteFileHistory together: in no state has one of them been invoked and
\* the other not, so a rejection of one cannot keep the other from being
\* attempted.
C5_BothDeletionsInvoked ==
    \A i \in DOMAIN launches :
        launches[i].cand.type = "app" =>
            (launches[i].rem = "none" <=> launches[i].del = "none")

\* C5 witness: removeAppFromIndex rejected and deleteFileHistory had been
\* invoked all the same (and has settled)
C5_Witness ==
    \E i \in DOMAIN launches :
        /\ launches[i].rem = "failed"
        /\ launches[i].del \in {"ok", "failed"}

\* C6: when the index removal rejects and the history deletion succeeds, the
\* path is removed from the mirror and from filteredFiles: once both calls
\* have settled that way, neither list holds the path.
C6_HistoryPrunedDespiteIndexFailure ==
    [][\A i \in DOMAIN launches :
          (/\ launches'[i].rem = "failed"
           /\ launches'[i].del = "ok"
           /\ launches[i] # launches'[i])
          => /\ ~Holds(allFileHistoryCache', launches[i].cand.payload)
             /\ ~Holds(filteredFiles', launches[i].cand.payload)]_vars

\* C7: when launchApplication rejects with a message that matches no
\* target-missing pattern, the raw message is shown, neither deletion is
\* invoked, and apps, filteredApps, filteredFiles and the mirror stay as
\* they are.
C7_OtherAppFailureIsNotDestructive ==
    [][\A i \in DOMAIN launches :
          (/\ launches[i].pc = "launchApp"
           /\ launches'[i].pc # "launchApp"
           /\ launches'[i].err # null
           /\ ~MatchesAppMissingPattern(launches'[i].err))
          => /\ errorMessage' = launches'[i].err
             /\ launches'[i].pc = "done"
             /\ launches'[i].rem = "none"
             /\ launches'[i].del = "none"
             /\ UNCHANGED <<apps, filteredApps, filteredFiles, allFileHistoryCache,
                            backendHistory, backendIndex>>]_vars

\* C7 witness: an application launch ended with an error that matches no
\* target-missing pattern, and the raw message is shown
C7_Witness ==
    \E i \in DOMAIN launches :
        /\ launches[i].end = "error"
        /\ launches[i].cand.type = "app"
        /\ launches[i].err = MsgAccessDenied
        /\ errorMessage = MsgAccessDenied
        /\ apps = InitialApps

\* the refreshFileHistoryCache call r replaces the mirror in this step
Completes(r) == r \in refreshes /\ r.phase = "read" /\ r \notin refreshes'

\* the list holds an entry of the path whose last_used is not older than t
HoldsSince(list, path, t) ==
    \E i \in DOMAIN list :
        /\ historyKey(list[i].path) = historyKey(path)
        /\ list[i].last_used >= t

\* C8: once no handleLaunch, no addFileToHistory and no
\* refreshFileHistoryCache is in flight and every persistence call succeeded,
\* the mirror is the store's current history list.
C8_MirrorConverges ==
    (/\ addLog # <<>>
     /\ Active = {}
     /\ refreshes = {}
     /\ \A k \in DOMAIN addLog : addLog[k].status = "ok")
    => allFileHistoryCache = backendHistory

\* C9: the reconcile that the failed persistence of a later use starts does
\* not roll back an earlier use of another path whose persistence is still
\* in flight: when it completes, the mirror still holds the earlier path
\* with its optimistic last_used.
C9_FailureKeepsEarlierUse ==
    [][\A r \in refreshes :
          (Completes(r) /\ r.origin = "addFail")
          => \A k \in pendingAdds :
                 (addLog[k].id < r.id /\ addLog[k].path # launches[r.id].cand.path)
                 => HoldsSince(allFileHistoryCache', addLog[k].path, addLog[k].id)]_vars

\* C10: two recordings for two distinct paths made while the reconcile
\* started for a third path is in flight survive its completion: the mirror
\* then holds both paths with their optimistic last_used, and no two
\* entries with the same key.
C10_RecordingsSurviveReconcile ==
    [][\A r \in refreshes :
          Completes(r)
          => \A i, j \in DOMAIN launches :
                 (/\ r.since < i
                  /\ i < j
                  /\ shouldUpdateHistory(launches[i].cand)
                  /\ shouldUpdateHistory(launches[j].cand)
                  /\ Cardinality({historyKey(launches[n].cand.path) : n \in {r.id, i, j}}) = 3
                  /\ \A k \in DOMAIN addLog :
                         addLog[k].id \in {i, j} => addLog[k].status = "pending")
                 => /\ HoldsSince(allFileHistoryCache', launches[i].cand.path, i)
                    /\ HoldsSince(allFileHistoryCache', launches[j].cand.path, j)
                    /\ NoDuplicateKeys(allFileHistoryCache')]_vars

\* the invocations whose candidate the history policy accepts, in order
acceptedLaunches ==
    SelectSeq([i \in DOMAIN launches |-> i],
              LAMBDA i : shouldUpdateHistory(launches[i].cand))

Begins(i) == i \notin DOMAIN launches /\ i \in DOMAIN launches'

\* invocation i invokes its first host action in this step
InvokesHostAction(i) ==
    /\ i \in DOMAIN launches'
    /\ launches'[i].acts # <<>>
    /\ i \in DOMAIN launches => launches[i].acts = <<>>

\* C12: an invocation for an accepted candidate has put the use into
\* openHistory and into the mirror by the time it reaches its first await,
\* and openHistory holds it whenever the host action is invoked; the host
\* action, its completion and the hiding of the window do not wait for
\* addFileToHistory or refreshFileHistoryCache (the witness).
C12_RecordedBeforeHostAction ==
    [][\A i \in DOMAIN launches' :
          shouldUpdateHistory(launches'[i].cand) =>
              LET path == launches'[i].cand.path
              IN  /\ Begins(i) =>
                         /\ path \in DOMAIN openHistory'
                         /\ openHistory'[path] = i
                         /\ HoldsSince(allFileHistoryCache', path, i)
                  /\ InvokesHostAction(i) =>
                         /\ path \in DOMAIN openHistory'
                         /\ openHistory'[path] >= i]_vars

\* C12 witness: the application was launched and the window hidden while
\* the addFileToHistory call of the invocation is still pending and no
\* refreshFileHistoryCache has run; the mirror holds the optimistic entry
C12_Witness ==
    \E i \in DOMAIN launches :
        /\ launches[i].cand.type = "app"
        /\ launches[i].end = "success"
        /\ launches[i].acts = <<"launchApplication">>
        /\ launches[i].hides = 1
        /\ \E k \in pendingAdds : addLog[k].id = i
        /\ refreshes = {}
        /\ HoldsSince(allFileHistoryCache, launches[i].cand.path, i)

\* addFileToHistory call k is rejected in this step
AddRejected(k) == addLog[k].status = "pending" /\ addLog'[k].status = "failed"

\* C13: the rejection of an addFileToHistory call changes neither the error
\* message nor any invocation (its position, its outcome, its host actions,
\* its hiding of the window) nor the lists; it starts one
\* refreshFileHistoryCache and nothing else.
C13_AddRejectionIsAbsorbed ==
    [][\A k \in DOMAIN addLog :
          AddRejected(k) =>
              /\ errorMessage' = errorMessage
              /\ launches' = launches
              /\ UNCHANGED <<launchingAppPath, listVars, cacheVars, backendVars>>
              /\ \E r \in refreshes' :
                     /\ r \notin refreshes
                     /\ r.id = addLog[k].id
                     /\ r.phase = "invoked"
                     /\ refreshes' = refreshes \cup {r}]_vars

\* C13 witness: the host action of an invocation succeeded and the window
\* was hidden, its addFileToHistory call was rejected, and no error message
\* is shown
C13_Witness ==
    \E i \in DOMAIN launches :
        /\ launches[i].end = "success"
        /\ launches[i].hides = 1
        /\ \E k \in DOMAIN addLog : addLog[k].id = i /\ addLog[k].status = "failed"
        /\ errorMessage = null

\* the application self-healing prunes the lists in this step
PruneStep ==
    \E i \in DOMAIN launches :
        /\ launches[i].cand.type = "app"
        /\ launches[i].end # "pruned"
        /\ launches'[i].end = "pruned"

\* C14 as stated: after the persistence of a use failed, the entry of that
\* use stays in the mirror with its optimistic last_used until a later
\* launch or an explicit refresh; so the completion of the
\* refreshFileHistoryCache that the failure started, with no later launch
\* begun, leaves it there.
C14_MirrorStaysOptimistic ==
    [][\A r \in refreshes :
          (Completes(r) /\ r.origin = "addFail" /\ r.id = Len(launches))
          => HoldsSince(allFileHistoryCache', launches[r.id].cand.path, r.id)]_vars

\* C14 amended: the rejection of addFileToHistory leaves the mirror as it is
\* and starts a refreshFileHistoryCache at once; the optimistic entry of the
\* failed use then stays until a refreshFileHistoryCache completes or the
\* self-healing prunes the path, and the refresh the failure started
\* replaces the mirror by the list it fetched.
C14_OptimisticUntilReconcile ==
    [][/\ \A k \in DOMAIN addLog :
              /\ AddRejected(k) =>
                     /\ allFileHistoryCache' = allFileHistoryCache
                     /\ \E r \in refreshes' \ refreshes :
                            r.origin = "addFail" /\ r.id = addLog[k].id
              /\ (/\ addLog'[k].status = "failed"
                  /\ HoldsSince(allFileHistoryCache, addLog[k].path, addLog[k].id)
                  /\ ~ReconcileStep
                  /\ ~PruneStep)
                 => HoldsSince(allFileHistoryCache', addLog[k].path, addLog[k].id)
       /\ \A r \in refreshes :
              (Completes(r) /\ r.origin = "addFail")
              => allFileHistoryCache' = r.snap]_vars

\* C14 witness: the persistence of a use failed, the refresh it started has
\* completed, and the mirror is the store's list, without the optimistic
\* state of that use
C14_Witness ==
    \E k \in DOMAIN addLog :
        /\ addLog[k].status = "failed"
        /\ refreshes = {}
        /\ allFileHistoryCache = backendHistory
        /\ ~HoldsSince(allFileHistoryCache, addLog[k].path, addLog[k].id)

\* the types whose use is never recorded
EphemeralTypes ==
    {"ai", "email", "json_formatter", "history", "settings", "memo", "plugin"}

\* invocation i begins or goes on in this step
Runs(i) == Begins(i) \/ (i \in DOMAIN launches /\ launches[i] # launches'[i])

\* the step leaves the recorded history as it is and issues no
\* addFileToHistory call
HistoryUntouched ==
    UNCHANGED <<openHistory, allFileHistoryCache, filteredFiles,
                allFileHistoryCacheLoaded, addLog>>

\* C15 as stated: no step of an invocation for a candidate of an ephemeral
\* type, or for a candidate with an empty path, changes openHistory, the
\* mirror, filteredFiles or the loaded flag or issues addFileToHistory.
C15_EphemeralOrEmptyPathUntouched ==
    [][\A i \in DOMAIN launches' :
          (/\ \/ launches'[i].cand.type \in EphemeralTypes
              \/ launches'[i].cand.path = <<>>
           /\ Runs(i))
          => HistoryUntouched]_vars

\* C15 amended: no step of an invocation for a candidate of an ephemeral
\* type changes openHistory, the mirror, filteredFiles or the loaded flag or
\* issues addFileToHistory, and such an invocation starts no
\* refreshFileHistoryCache; for a candidate of another type with an empty
\* path the step up to the first await changes none of them and no
\* addFileToHistory call is ever issued for it.
C15_EphemeralUntouched ==
    [][\A i \in DOMAIN launches' :
          /\ (launches'[i].cand.type \in EphemeralTypes /\ Runs(i))
             => HistoryUntouched
          /\ launches'[i].cand.type \in EphemeralTypes
             => \A r \in refreshes' : r.id # i
          /\ (launches'[i].cand.path = <<>> /\ Begins(i)) => HistoryUntouched
          /\ launches'[i].cand.path = <<>>
             => \A k \in DOMAIN addLog' : addLog'[k].id # i]_vars

\* C15 witness: the memo dialog was opened for a memo candidate while the
\* mirror is still not loaded and nothing was recorded
C15_Witness ==
    \E i \in DOMAIN launches :
        /\ launches[i].cand.type = "memo"
        /\ launches[i].acts = <<"memoModal">>
        /\ launches[i].pc = "done"
        /\ allFileHistoryCacheLoaded = FALSE
        /\ allFileHistoryCache = <<>>
        /\ openHistory = <<>>
        /\ addLog = <<>>

\* the use of invocation i was recorded: openHistory has the path and
\* addFileToHistory was called with it
Recorded(i) ==
    /\ launches[i].cand.path \in DOMAIN openHistory
    /\ addCallsOf(i) = <<launches[i].cand.path>>

\* nothing was recorded for invocation i
NotRecorded(i) ==
    /\ launches[i].cand.path \notin DOMAIN openHistory
    /\ addCallsOf(i) = <<>>

\* the lower-cased path names an .exe or .lnk outside a Recent folder
IsRealAppFile(path) ==
    LET lower == toLowerCase(path)
        tail4 == IF Len(lower) >= 4 THEN SubSeq(lower, Len(lower) - 3, Len(lower))
                 ELSE <<>>
    IN  /\ tail4 \in {<<".","e","x","e">>, <<".","l","n","k">>}
        /\ \A k \in 1..(Len(lower) - 7) :
               SubSeq(lower, k, k + 7) \notin
                   {<<"\\","r","e","c","e","n","t","\\">>,
                    <<"/","r","e","c","e","n","t","/">>}

\* C16: the use of an application candidate is recorded exactly when its
\* lower-cased path ends with .exe or .lnk and contains neither \recent\
\* nor /recent/; the use of a file, everything, url or search candidate with
\* a non-empty path is always recorded.
C16_AppsRecordedWhenRealFiles ==
    \A i \in DOMAIN launches :
        LET c == launches[i].cand
        IN  /\ c.type = "app" =>
                   IF IsRealAppFile(c.path) THEN Recorded(i) ELSE NotRecorded(i)
            /\ (c.type \in {"file", "everything", "url", "search"} /\ c.path # <<>>)
               => Recorded(i)

\* C16 witness: the use of C:\A.EXE was recorded
C16_Witness ==
    \E i \in DOMAIN launches :
        /\ launches[i].cand = AppCaps
        /\ Recorded(i)
        /\ Holds(allFileHistoryCache, PathAppCaps)

\* the candidate has the payload field its type tag requires
WellFormed(c) ==
    \/ c.type \in {"history", "settings", "search"}
    \/ /\ c.type \in {"app", "file", "everything", "url", "memo", "plugin", "email",
                       "json_formatter", "ai"}
       /\ c.payload # NoPayload

\* the host action that belongs to the candidate: by its type tag, and the
\* opening of the link when the path is an http(s) link
HostActionOfType(c) ==
    IF isHttpUrl(toLowerCase(c.path)) THEN "openUrl"
    ELSE IF c.type = "app" THEN "launchApplication"
    ELSE IF c.type = "file" THEN "launchFile"
    ELSE IF c.type = "everything"
         THEN IF isHttpUrl(toLowerCase(c.payload)) THEN "openUrl" ELSE "launchFile"
    ELSE IF c.type \in {"url", "search"} THEN "openUrl"
    ELSE IF c.type = "email" THEN "writeText"
    ELSE IF c.type = "json_formatter" THEN "showJsonFormatterWindow"
    ELSE IF c.type = "history" THEN "showShortcutsConfig"
    ELSE IF c.type = "settings" THEN "showPluginListWindow"
    ELSE IF c.type = "memo" THEN "memoModal"
    ELSE IF c.type = "plugin" THEN "executePlugin"
    ELSE "none"

\* C17 as stated: no invocation invokes two host actions, and an invocation
\* for a well-formed candidate has invoked one when it returns.
C17_ExactlyOneHostAction ==
    \A i \in DOMAIN launches :
        /\ Len(launches[i].acts) <= 1
        /\ (launches[i].pc = "done" /\ WellFormed(launches[i].cand))
           => Len(launches[i].acts) = 1

\* C17 amended: no invocation invokes two host actions; an invocation for a
\* well-formed candidate has invoked exactly the host action of its type
\* when it returns, except that a candidate of type ai (whose path is no
\* link) invokes none, and a settings candidate invokes none when
\* hideLauncher fails before the view is opened.
C17_OneHostActionExceptAi ==
    \A i \in DOMAIN launches :
        LET c == launches[i].cand
        IN  /\ Len(launches[i].acts) <= 1
            /\ (launches[i].pc = "done" /\ WellFormed(c)) =>
                   IF \/ c.type = "ai" /\ ~isHttpUrl(toLowerCase(c.path))
                      \/ c.type = "settings" /\ launches[i].end = "hideFailed"
                   THEN launches[i].acts = <<>>
                   ELSE launches[i].acts = <<HostActionOfType(c)>>

\* C17 witness: an everything candidate whose path is a link was opened as
\* a link and nothing else, and the window was hidden
C17_Witness ==
    \E i \in DOMAIN launches :
        /\ launches[i].cand = EverythingUrl
        /\ launches[i].pc = "done"
        /\ launches[i].acts = <<"openUrl">>
        /\ launches[i].hides = 1

\* C18: when an invocation has returned after a successful host action,
\* hideLauncherAndResetState was invoked exactly once for a candidate of type
\* url, search, json_formatter, app, file or everything, and not at all for
\* a candidate of type memo, history or ai whose path is no link.
C18_HiddenOnceOrLeftOpen ==
    \A i \in DOMAIN launches :
        LET c == launches[i].cand
        IN  (/\ launches[i].pc = "done"
             /\ launches[i].end = "success"
             /\ WellFormed(c))
            => /\ c.type \in {"url", "search", "json_formatter", "app", "file",
                              "everything"}
                  => launches[i].hides = 1
               /\ (c.type \in {"memo", "history", "ai"}
                   /\ ~isHttpUrl(toLowerCase(c.path)))
                  => launches[i].hides = 0

\* C18 witness: the application was launched and the window hidden once
C18_Witness ==
    \E i \in DOMAIN launches :
        /\ launches[i].cand.type = "app"
        /\ launches[i].pc = "done"
        /\ launches[i].end = "success"
        /\ launches[i].acts = <<"launchApplication">>
        /\ launches[i].hides = 1
        /\ launchingAppPath = null

\* the type tag requires a payload field and the candidate has none
Malformed(c) ==
    /\ c.type \in {"app", "file", "everything", "url", "memo", "plugin", "email",
                    "json_formatter"}
    /\ c.payload = NoPayload

\* C19: an invocation for a malformed candidate is a no-op: it invokes no
\* host action, records no use (openHistory, the mirror and the store's
\* calls stay as they are), does not hide the window and does not throw.
C19_MalformedIsNoOp ==
    [][\A i \in DOMAIN launches' :
          (Malformed(launches'[i].cand) /\ Runs(i))
          => /\ launches'[i].acts = <<>>
             /\ launches'[i].hides = 0
             /\ launches'[i].err = null
             /\ UNCHANGED <<openHistory, allFileHistoryCache, addLog, uiVars>>]_vars

\* invocation i ends in this step with a failure of its host action that is
\* not taken for target-missing
FailsUnclassified(i) ==
    /\ launches[i].pc # "done"
    /\ launches'[i].pc = "done"
    /\ launches'[i].end \in {"error", "alerted"}

\* C20: when a host action fails and the failure is not classified as
\* target-missing, the error message is set to the raw error text, for every
\* type of candidate and whatever error message was shown when the
\* invocation began.
C20_RawErrorAlwaysShown ==
    [][\A i \in DOMAIN launches :
          FailsUnclassified(i) => errorMessage' = launches'[i].err]_vars

\* ------------------------------------------------------------------------
\* Self-healing of file and everything candidates
\* ------------------------------------------------------------------------

\* invocation i returns in this step after launchFile failed with a
\* message that holds "Path not found"
ReturnsAfterPathNotFound(i) ==
    /\ Returns(i)
    /\ launches[i].cand.type \in {"file", "everything"}
    /\ launches'[i].err # null
    /\ includes(launches'[i].err, <<"Path", "not", "found">>)

\* C21: when launchFile fails with a message containing "Path not found",
\* for a file candidate and for an everything candidate alike,
\* deleteFileHistory was invoked, the entry is gone from the mirror when
\* the deletion succeeded, the user is notified and the window was not
\* hidden.
C21_PathNotFoundSelfHeals ==
    [][\A i \in DOMAIN launches :
          ReturnsAfterPathNotFound(i) =>
              /\ launches'[i].del # "none"
              /\ launches'[i].del = "ok" =>
                     ~Holds(allFileHistoryCache', launches[i].cand.payload)
              /\ errorMessage' # null
              /\ launches'[i].hides = 0]_vars

\* ------------------------------------------------------------------------
\* Termination of handleLaunch
\* ------------------------------------------------------------------------

\* the promise invocation i returned has resolved
Resolved(i) == i \in DOMAIN launches /\ launches[i].pc = "done"

\* C22: when every call handleLaunch awaits settles, every invocation
\* returns by resolving, whatever the outcome of the host action was.
C22_EveryLaunchResolves ==
    \A i \in 1..MaxLaunches : (i \in DOMAIN launches) ~> Resolved(i)

\* an invocation resolved although the deletion of its self-healing failed
C22_Witness ==
    \E i \in DOMAIN launches :
        Resolved(i) /\ launches[i].del = "failed" /\ launches[i].err # null

\* ------------------------------------------------------------------------
\* The loaded flag
\* ------------------------------------------------------------------------

\* C23: the loaded flag is true only if the full mirror was hydrated from
\* the store at least once: the flag, false at first, becomes true only in
\* a step in which a refreshFileHistoryCache call replaces the mirror.
C23_LoadedOnlyByHydration ==
    [][(~allFileHistoryCacheLoaded /\ allFileHistoryCacheLoaded')
           => ReconcileStep]_vars

\* ------------------------------------------------------------------------
\* Self-healing against the calls the launch left running
\* ------------------------------------------------------------------------

\* every call and every reconciliation that invocation i started has
\* completed
Quiescent(i) ==
    /\ launches[i].pc = "done"
    /\ \A k \in DOMAIN addLog : addLog[k].id = i => addLog[k].status # "pending"
    /\ \A r \in refreshes : r.id # i

\* the list has no entry whose path is spelled exactly as the path
Lacks(list, path) == \A k \in DOMAIN list : list[k].path # path

\* C29: once the application self-healing has pruned path P, and every
\* call and reconciliation of that launch has completed, P is in neither
\* the store's history nor the mirror: the addFileToHistory call and the
\* reconciliation the launch started before the host action do not bring
\* it back.
C29_PrunedPathNotReinserted ==
    \A i \in DOMAIN launches :
        (/\ launches[i].end = "pruned"
         /\ launches[i].del = "ok"
         /\ Quiescent(i))
        => /\ Lacks(backendHistory, launches[i].cand.payload)
           /\ Lacks(allFileHistoryCache, launches[i].cand.payload)

\* ------------------------------------------------------------------------
\* Links
\* ------------------------------------------------------------------------

\* the path starts with http:// or https://, in any letter case
IsLink(path) ==
    LET low == toLowerCase(path)
    IN  \/ Len(low) >= 7 /\ SubSeq(low, 1, 7) = <<"h","t","t","p",":","/","/">>
        \/ Len(low) >= 8 /\ SubSeq(low, 1, 8) = <<"h","t","t","p","s",":","/","/">>

\* C30: a candidate whose path starts with http:// or https:// (in any
\* letter case) is dispatched to openUrl(path) and, once that resolved, to
\* hiding the window, whatever its type tag; no handler of its type runs.
C30_LinkIsOpenedWhateverTheType ==
    \A i \in DOMAIN launches :
        IsLink(launches[i].cand.path) =>
            /\ launches[i].acts = <<"openUrl">>
            /\ launches[i].opened = launches[i].cand.path
            /\ launches[i].pc \in {"openUrl", "hide", "done"}
            /\ launches[i].hides = IF launches[i].pc = "openUrl"
                                      \/ launches[i].end = "error"
                                   THEN 0 ELSE 1

\* C30 witness: an application candidate whose path is an https link was
\* opened as a link, the window was hidden, and launchApplication did not
\* run
C30_Witness ==
    \E i \in DOMAIN launches :
        /\ launches[i].cand.type = "app"
        /\ launches[i].cand.path = PathLinkSecure
        /\ launches[i].pc = "done"
        /\ launches[i].end = "success"
        /\ launches[i].opened = PathLinkSecure
        /\ launches[i].acts = <<"openUrl">>
        /\ launches[i].hides = 1

\* ------------------------------------------------------------------------
\* launcherUtils: calculateRelevanceScore and normalizePathForHistory
\* ------------------------------------------------------------------------

\* Date.now() at the evaluation, in hours
Now == 1000

\* the useCount past which the usage bonus no longer grows
UsageCap == 50

\* the longest path handed to normalizePathForHistory
MaxPathLen == 3

\* a tier test that looks for the prefix before it looks for equality
matchBasePrefixFirst(name, query, scale) ==
    IF query = <<>> THEN 0
    ELSE IF startsWith(name, query) THEN scale[2]
    ELSE IF name = query THEN scale[1]
    ELSE IF includes(name, query) THEN scale[3]
    ELSE 0

\* the base of the highest tier the name reaches for the query: equal,
\* starts with it, holds it; 0 for no match and for an empty query
matchBase(name, query, scale) ==
    IF query = <<>> THEN 0
    ELSE IF name = query THEN scale[1]
    ELSE IF startsWith(name, query) THEN scale[2]
    ELSE IF includes(name, query) THEN scale[3]
    ELSE 0

\* a usage bonus that is dropped past the threshold
usageBonusDropped(useCount) ==
    IF useCount = <<>> \/ useCount[1] > UsageCap THEN 0 ELSE useCount[1]

\* the usage bonus: grows with useCount up to the threshold; an undefined
\* useCount (<<>>) earns none
usageBonus(useCount) ==
    IF useCount = <<>> THEN 0
    ELSE IF useCount[1] > UsageCap THEN UsageCap ELSE useCount[1]

\* a recency bonus granted in full to everything used within two days
recencyBonusStepped(lastUsedAt) ==
    IF lastUsedAt = <<>> \/ Now - lastUsedAt[1] >= 48 THEN 0 ELSE 48

\* the recency bonus: falls with the hours elapsed since lastUsedAt, down
\* to none after two days; an undefined lastUsedAt (<<>>) earns none
recencyBonus(lastUsedAt) ==
    IF lastUsedAt = <<>> \/ Now - lastUsedAt[1] >= 48 THEN 0
    ELSE 48 - (Now - lastUsedAt[1])

\* calculateRelevanceScore(displayLabel, path, query, useCount, lastUsedAt,
\* isRunning, isAppType, pinyinFull, pinyinInitials, isHistoryItem), the
\* arguments as the fields of a: the tier of the label, the tier of the
\* transliteration on its smaller scale, and the bonuses, added up
calculateRelevanceScore(a) ==
    LET query == toLowerCase(a.query)
        full == matchBase(toLowerCase(a.pinyinFull), query, <<800, 400, 80>>)
        initials == matchBase(toLowerCase(a.pinyinInitials), query, <<800, 400, 80>>)
    IN  matchBase(toLowerCase(a.displayLabel), query, <<1200, 500, 100>>)
            + (IF full >= initials THEN full ELSE initials)
            + (IF a.isAppType THEN 30 ELSE 0)
            + (IF a.isHistoryItem THEN 20 ELSE 0)
            + usageBonus(a.useCount)
            + recencyBonus(a.lastUsedAt)

\* the labels the scorer is applied to: equal to the query "ab" (in
\* another case too), starting with it, holding it inside, without it
Labels ==
    {<<"a","b">>, <<"A","B">>, <<"a","b","c">>, <<"c","a","b">>, <<"x","y">>}

\* the arguments the scorer is applied to; among the queries the empty one
\* and one longer than the labels
ScoreArguments ==
    [displayLabel : Labels,
     query : {<<>>, <<"a","b">>, <<"a","b","c","d">>},
     useCount : {<<>>, <<0>>, <<5>>, <<10>>, <<UsageCap - 1>>, <<UsageCap>>,
                 <<UsageCap + 1>>, <<200>>},
     lastUsedAt : {<<>>, <<Now>>, <<Now - 1>>, <<Now - 24>>, <<Now - 47>>,
                   <<Now - 48>>, <<Now - 500>>},
     isAppType : BOOLEAN,
     isHistoryItem : BOOLEAN,
     pinyinFull : {<<>>, <<"a","b">>},
     pinyinInitials : {<<>>}]

\* the paths normalizePathForHistory is applied to: every string of drive
\* letters in both cases, both separators and a colon, up to MaxPathLen
PathArguments ==
    UNION {[1..n -> {"C", "c", "\\", "/", ":"}] : n \in 0..MaxPathLen}

\* one application of calculateRelevanceScore
Score ==
    /\ utilsCall.fn = "none"
    /\ \E a \in ScoreArguments :
           utilsCall' = [fn |-> "calculateRelevanceScore", args |-> a,
                         result |-> calculateRelevanceScore(a)]
    /\ UNCHANGED <<cacheVars, listVars, uiVars, backendVars, launches, addLog,
                   refreshes, escapeHook, clientId, translation>>

\* one application of normalizePathForHistory
Normalize ==
    /\ utilsCall.fn = "none"
    /\ \E path \in PathArguments :
           utilsCall' = [fn |-> "normalizePathForHistory", args |-> path,
                         result |-> normalizePathForHistory(path)]
    /\ UNCHANGED <<cacheVars, listVars, uiVars, backendVars, launches, addLog,
                   refreshes, escapeHook, clientId, translation>>

NextUtils ==
    \/ Score
    \/ Normalize

SpecUtils == Init /\ [][NextUtils]_vars

\* the state holds an application of calculateRelevanceScore
Scored == utilsCall.fn = "calculateRelevanceScore"

\* the tier of the label for a query that is not empty: 3 equal, 2 starts
\* with the query, 1 holds the query further inside, 0 no match; letter
\* case is disregarded
Tier(label, query) ==
    LET l == toLowerCase(label)
        q == toLowerCase(query)
    IN  IF l = q THEN 3
        ELSE IF Len(q) < Len(l) /\ SubSeq(l, 1, Len(q)) = q THEN 2
        ELSE IF \E i \in 2..(Len(l) - Len(q) + 1) : SubSeq(l, i, i + Len(q) - 1) = q
             THEN 1
        ELSE 0

\* C24: with the query and all other signals fixed, a label of a higher
\* tier (exact, prefix, inner substring, no match) scores strictly more
\* than a label of a lower tier; an exact match scores more than 1000, a
\* prefix match at least 500 and less than the exact match.
C24_TiersStrictlyOrdered ==
    (Scored /\ utilsCall.args.query # <<>>) =>
        LET a == utilsCall.args
            tier == Tier(a.displayLabel, a.query)
        IN  /\ \A label \in Labels :
                   Tier(label, a.query) < tier =>
                       calculateRelevanceScore([a EXCEPT !.displayLabel = label])
                           < utilsCall.result
            /\ tier = 3 => utilsCall.result > 1000
            /\ tier = 2 =>
                   /\ utilsCall.result >= 500
                   /\ utilsCall.result
                          < calculateRelevanceScore([a EXCEPT !.displayLabel = a.query])

\* C24 witness: a label that starts with the query, with the other signals
\* present, scores between the label that holds the query inside and the
\* label equal to the query
C24_Witness ==
    /\ Scored
    /\ utilsCall.args.displayLabel = <<"a","b","c">>
    /\ utilsCall.args.query = <<"a","b">>
    /\ utilsCall.args.isAppType
    /\ utilsCall.args.useCount = <<10>>
    /\ utilsCall.result >= 500
    /\ calculateRelevanceScore([utilsCall.args EXCEPT !.displayLabel = <<"c","a","b">>])
           < utilsCall.result
    /\ calculateRelevanceScore([utilsCall.args EXCEPT !.displayLabel = <<"A","B">>])
           > utilsCall.result

\* C25: with every other argument equal, a larger useCount never scores
\* less, and scores strictly more while it is below the saturation
\* threshold.
C25_MonotoneInUseCount ==
    (Scored /\ utilsCall.args.useCount # <<>>) =>
        \A useCount \in 0..(4 * UsageCap) :
            useCount > utilsCall.args.useCount[1] =>
                LET more == calculateRelevanceScore(
                                [utilsCall.args EXCEPT !.useCount = <<useCount>>])
                IN  /\ more >= utilsCall.result
                    /\ useCount < UsageCap => more > utilsCall.result

\* C25 witness: with an empty query, ten uses score more than five, and
\* uses past the threshold score the same
C25_Witness ==
    /\ Scored
    /\ utilsCall.args.query = <<>>
    /\ utilsCall.args.useCount = <<5>>
    /\ calculateRelevanceScore([utilsCall.args EXCEPT !.useCount = <<10>>])
           > utilsCall.result
    /\ calculateRelevanceScore([utilsCall.args EXCEPT !.useCount = <<200>>])
           = calculateRelevanceScore([utilsCall.args EXCEPT !.useCount = <<UsageCap>>])

\* C26: with every other argument equal, a more recent lastUsedAt never
\* scores less than an older one, and an item used one hour ago scores
\* strictly more than one used one day ago.
C26_MonotoneInRecency ==
    (Scored /\ utilsCall.args.lastUsedAt # <<>>) =>
        /\ \A lastUsedAt \in 0..Now :
               lastUsedAt > utilsCall.args.lastUsedAt[1] =>
                   calculateRelevanceScore(
                       [utilsCall.args EXCEPT !.lastUsedAt = <<lastUsedAt>>])
                       >= utilsCall.result
        /\ utilsCall.args.lastUsedAt = <<Now - 24>> =>
               calculateRelevanceScore([utilsCall.args EXCEPT !.lastUsedAt = <<Now - 1>>])
                   > utilsCall.result

\* C26 witness: with an empty query and no useCount, the item used a day
\* ago earns a recency bonus, and less than the item used an hour ago
C26_Witness ==
    /\ Scored
    /\ utilsCall.args.query = <<>>
    /\ utilsCall.args.useCount = <<>>
    /\ utilsCall.args.lastUsedAt = <<Now - 24>>
    /\ utilsCall.result > 0
    /\ calculateRelevanceScore([utilsCall.args EXCEPT !.lastUsedAt = <<Now - 1>>])
           > utilsCall.result

\* the state holds an application of normalizePathForHistory
Normalized == utilsCall.fn = "normalizePathForHistory"

\* the paths differ at most in letter case and in the kind of separator
Alike(p, q) ==
    /\ Len(p) = Len(q)
    /\ \A i \in DOMAIN p :
           \/ p[i] = q[i]
           \/ {p[i], q[i]} = {"\\", "/"}
           \/ \E k \in DOMAIN UpperChars : {p[i], q[i]} = {UpperChars[k], LowerChars[k]}

handleKeyDownWithoutReturn(outcome) ==
    [evaluated |-> [i \in DOMAIN outcome |-> i],
     called |-> SelectSeq([i \in DOMAIN outcome |-> i], LAMBDA i : outcome[i])]

\* the loop of handleKeyDown over the handlers, outcome[i] being what
\* handlers[i].condition() returns when it is called: the conditions
\* evaluated and the callbacks called, in order
handleKeyDown(outcome) ==
    LET hits == {i \in DOMAIN outcome : outcome[i]}
    IN  IF hits = {}
        THEN [evaluated |-> [i \in DOMAIN outcome |-> i], called |-> <<>>]
        ELSE LET first == CHOOSE i \in hits : \A j \in hits : i <= j
             IN  [evaluated |-> [i \in 1..first |-> i], called |-> <<first>>]

\* the component renders useEscapeKeyWithPriority(handlers, enabled) with n
\* handlers: the effect removes the listener of the render before and adds
\* one when enabled
Render(n, enabled) ==
    /\ escapeHook' = [escapeHook EXCEPT !.listening = enabled, !.handlers = n]
    /\ UNCHANGED <<cacheVars, listVars, uiVars, backendVars, launches, addLog,
                   refreshes, utilsCall, clientId, translation>>

\* a keydown event reaches the document: the listener, when there is one,
\* handles Escape up to the await of the callback
KeyDown(key, keyCode, outcome) ==
    /\ escapeHook.handlers > 0
    /\ escapeHook.presses < MaxPresses
    /\ LET handled == escapeHook.listening /\ (key = "Escape" \/ keyCode = 27)
           ran == IF handled THEN handleKeyDown(outcome)
                  ELSE [evaluated |-> <<>>, called |-> <<>>]
       IN  escapeHook' =
               [listening |-> escapeHook.listening,
                handlers |-> escapeHook.handlers,
                presses |-> escapeHook.presses + 1,
                key |-> key, keyCode |-> keyCode, outcome |-> outcome,
                defaultPrevented |-> handled,
                evaluated |-> ran.evaluated,
                called |-> ran.called,
                awaiting |-> ran.called # <<>>]
    /\ UNCHANGED <<cacheVars, listVars, uiVars, backendVars, launches, addLog,
                   refreshes, utilsCall, clientId, translation>>

\* await handler.callback() settles: handleKeyDown returns
CallbackSettles ==
    /\ escapeHook.presses > 0
    /\ escapeHook.awaiting
    /\ escapeHook' = [escapeHook EXCEPT !.awaiting = FALSE]
    /\ UNCHANGED <<cacheVars, listVars, uiVars, backendVars, launches, addLog,
                   refreshes, utilsCall, clientId, translation>>

NextEscape ==
    \/ \E n \in 1..MaxHandlers, enabled \in BOOLEAN :
           escapeHook.presses = 0 /\ Render(n, enabled)
    \/ \E enabled \in BOOLEAN :
           escapeHook.presses > 0 /\ Render(escapeHook.handlers, enabled)
    \/ \E key \in {"Escape", "Esc", "a"}, outcome \in [1..escapeHook.handlers -> BOOLEAN] :
           KeyDown(key, IF key = "a" THEN 65 ELSE 27, outcome)
    \/ CallbackSettles

SpecEscape == Init /\ [][NextEscape]_vars

\* the last keydown event was an Escape (by key or by keyCode) that came
\* while the hook was enabled
EscapeWhileEnabled ==
    /\ escapeHook.presses > 0
    /\ escapeHook.listening
    /\ escapeHook.key = "Escape" \/ escapeHook.keyCode = 27

\* C28: on an Escape keydown while the hook is enabled, the conditions are
\* evaluated in list order up to the first that returns true, exactly the
\* callback of that handler is run, and no later condition or callback is
\* evaluated; when no condition holds, or the hook is disabled, no callback
\* runs.
C28_FirstMatchingHandlerOnly ==
    [][\A key \in {"Escape", "Esc", "a"} :
          \A outcome \in [1..escapeHook.handlers -> BOOLEAN] :
              KeyDown(key, IF key = "a" THEN 65 ELSE 27, outcome) =>
                  LET hits == {i \in 1..escapeHook.handlers : outcome[i]}
                      press == escapeHook'
                  IN  IF escapeHook.listening /\ key # "a"
                      THEN IF hits = {}
                           THEN /\ press.called = <<>>
                                /\ press.evaluated
                                       = [i \in 1..escapeHook.handlers |-> i]
                           ELSE \E first \in hits :
                                    /\ \A j \in hits : first <= j
                                    /\ press.called = <<first>>
                                    /\ press.evaluated = [i \in 1..first |-> i]
                      ELSE press.called = <<>> /\ press.evaluated = <<>>]_vars

\* C28 witness: the second of three handlers was the first whose condition
\* held, the third held too; only the second callback ran and the third
\* condition was not evaluated
C28_Witness ==
    /\ EscapeWhileEnabled
    /\ escapeHook.outcome = <<FALSE, TRUE, TRUE>>
    /\ escapeHook.evaluated = <<1, 2>>
    /\ escapeHook.called = <<2>>
    /\ ~escapeHook.awaiting

\* ------------------------------------------------------------------------
\* openHistory under self-healing
\* ------------------------------------------------------------------------

\* the path is in none of apps, filteredApps, filteredFiles and the mirror
PrunedFromLists(as, fas, ffs, cache, path) ==
    /\ \A k \in DOMAIN as :
           normalizedPathToRemove(as[k]) # normalizedPathToRemove(path)
    /\ \A k \in DOMAIN fas :
           normalizedPathToRemove(fas[k]) # normalizedPathToRemove(path)
    /\ ~Holds(ffs, path)
    /\ ~Holds(cache, path)

\* invocation i is the last one so far that recorded its path
LastRecordingOfPath(i) ==
    \A j \in DOMAIN launches :
        j > i => launches[j].cand.path # launches[i].cand.path

\* C31: the self-healing leaves openHistory untouched: when an application
\* launch that recorded path P prunes P as target-missing, openHistory
\* still holds the key P, with the timestamp of that launch when no later
\* launch recorded P meanwhile, while P is gone from apps, filteredApps,
\* filteredFiles and the mirror.
C31_OpenHistoryKeptByPruning ==
    [][\A i \in DOMAIN launches :
          (/\ launches[i].cand.type = "app"
           /\ launches[i].end # "pruned"
           /\ launches'[i].end = "pruned"
           /\ shouldUpdateHistory(launches[i].cand))
          => /\ launches[i].cand.path \in DOMAIN openHistory'
             /\ LastRecordingOfPath(i) => openHistory'[launches[i].cand.path] = i
             /\ openHistory' = openHistory
             /\ PrunedFromLists(apps', filteredApps', filteredFiles',
                                allFileHistoryCache', launches[i].cand.payload)]_vars

\* C31 witness: the launch pruned the path from a hydrated launcher, and
\* openHistory still holds it
C31_Witness ==
    \E i \in DOMAIN launches :
        /\ launches[i].end = "pruned"
        /\ launches[i].rem = "ok"
        /\ launches[i].del = "ok"
        /\ openHistory = touchOpenHistory(<<>>, launches[i].cand.path, i)
        /\ filteredFiles # <<>>
        /\ Len(apps) < Len(InitialApps)
        /\ PrunedFromLists(apps, filteredApps, filteredFiles, allFileHistoryCache,
                           launches[i].cand.payload)

\* ------------------------------------------------------------------------
\* The recording step
\* ------------------------------------------------------------------------

\* the positions of the mirror entries whose key is the key of the path
EntriesOf(cache, path) ==
    {k \in DOMAIN cache : historyKey(cache[k].path) = historyKey(path)}

\* C32: right after the recording step of a launch of an eligible path P at
\* time t, openHistory[P] (under the raw path) is t and exactly one mirror
\* entry has the key of P, with last_used t; recording a second raw path
\* with the same key adds an openHistory key and no mirror entry.
C32_RecordingStep ==
    [][\A i \in DOMAIN launches' :
          (Begins(i) /\ shouldUpdateHistory(launches'[i].cand)) =>
              LET path == launches'[i].cand.path
              IN  /\ path \in DOMAIN openHistory'
                  /\ openHistory'[path] = i
                  /\ Cardinality(EntriesOf(allFileHistoryCache', path)) = 1
                  /\ \A k \in EntriesOf(allFileHistoryCache', path) :
                         allFileHistoryCache'[k].last_used = i
                  /\ (/\ path \notin DOMAIN openHistory
                      /\ EntriesOf(allFileHistoryCache, path) # {})
                     => /\ Len(allFileHistoryCache') = Len(allFileHistoryCache)
                        /\ DOMAIN openHistory' = DOMAIN openHistory \cup {path}]_vars

\* ------------------------------------------------------------------------
\* The launch animation
\* ------------------------------------------------------------------------

\* C33: for an application candidate, launchingAppPath is set to the path
\* of the application when handleLaunch begins and launchApplication is
\* invoked only after that; launchingAppPath is set to null when
\* launchApplication settles, on success, on a target-missing failure
\* whether or not the deletions succeed, and on any other failure, and the
\* invocation does not set it again. So, for an invocation that no other
\* invocation overlaps, launchingAppPath is the path when launchApplication
\* is invoked and null when handleLaunch returns.
C33_LaunchingPathSetThenCleared ==
    [][\A i \in DOMAIN launches' :
          launches'[i].cand.type = "app" =>
              /\ (Begins(i) /\ launches'[i].pc = "timer")
                 => launchingAppPath' = launches'[i].cand.payload
              /\ (InvokesHostAction(i) /\ launches'[i].acts = <<"launchApplication">>)
                 => /\ i \in DOMAIN launches
                    /\ launches[i].pc = "timer"
                    /\ DOMAIN launches = {i}
                       => launchingAppPath = launches[i].cand.payload
              /\ (i \in DOMAIN launches /\ launches[i].acts = <<"launchApplication">>)
                 => /\ (launches[i].pc = "launchApp" /\ launches'[i].pc # "launchApp")
                       => launchingAppPath' = null
                    /\ (launches[i].pc # "launchApp" /\ launches'[i] # launches[i])
                       => launchingAppPath' = launchingAppPath
                    /\ (Returns(i) /\ DOMAIN launches' = {i})
                       => launchingAppPath' = null]_vars

\* C33 witness: launchApplication failed as target-missing, the removal
\* from the index failed too, and the invocation returned with
\* launchingAppPath null
C33_Witness ==
    \E i \in DOMAIN launches :
        /\ launches[i].cand.type = "app"
        /\ launches[i].acts = <<"launchApplication">>
        /\ launches[i].pc = "done"
        /\ launches[i].rem = "failed"
        /\ launchingAppPath = null

\* ------------------------------------------------------------------------
\* The window after a failed host action
\* ------------------------------------------------------------------------

\* C34: hideLauncherAndResetState is never invoked in a launch whose
\* openUrl, launchApplication or launchFile failed, target-missing or not,
\* whether the self-healing succeeded or not: the window stays open.
C34_NoHideAfterFailedHostAction ==
    \A i \in DOMAIN launches :
        (/\ launches[i].err # null
         /\ launches[i].acts \in {<<"openUrl">>, <<"launchApplication">>,
                                  <<"launchFile">>})
        => launches[i].hides = 0

\* C34 witness: launchFile failed with an error that is not target-missing
\* and the invocation returned without hiding the window
C34_Witness ==
    \E i \in DOMAIN launches :
        /\ launches[i].cand.type = "file"
        /\ launches[i].acts = <<"launchFile">>
        /\ launches[i].err = MsgAccessDenied
        /\ launches[i].pc = "done"
        /\ launches[i].hides = 0
        /\ errorMessage = MsgAccessDenied

\* ------------------------------------------------------------------------
\* The order of the self-healing of a file
\* ------------------------------------------------------------------------

\* the refreshFileHistoryCache call the self-healing of invocation i awaits
HealRefreshes(rs, i) == {r \in rs : r.id = i /\ r.origin = "fileHeal"}

\* C35: for a file candidate whose launchFile failed with "not found", the
\* reconciliation starts only when deleteFileHistory has completed, the
\* result list is searched again only when the reconciliation has
\* completed, and the notice of the pruning is set last, when the
\* invocation returns; when deleteFileHistory rejects, no reconciliation
\* and no search run and the message shown holds the original error.
C35_FileSelfHealInOrder ==
    [][\A i \in DOMAIN launches :
          launches[i].cand.type = "file" =>
              /\ (HealRefreshes(refreshes, i) = {} /\ HealRefreshes(refreshes', i) # {})
                 => /\ launches[i].pc = "fileDelete"
                    /\ launches'[i].del = "ok"
                    /\ launches'[i].pc = "fileRefresh"
              /\ (launches[i].pc # "fileSearch" /\ launches'[i].pc = "fileSearch")
                 => /\ launches[i].pc = "fileRefresh"
                    /\ \E r \in HealRefreshes(refreshes, i) : Completes(r)
                    /\ HealRefreshes(refreshes', i) = {}
              /\ (launches[i].end # "pruned" /\ launches'[i].end = "pruned")
                 => /\ launches[i].pc = "fileSearch"
                    /\ Returns(i)
                    /\ errorMessage' = FileMissingNotice(launches[i].cand.payload)
                                           \o HistoryPrunedNotice
              /\ (/\ launches[i].pc \in {"fileDelete", "fileRefresh", "fileSearch"}
                  /\ launches'[i] # launches[i]
                  /\ ~Returns(i))
                 => errorMessage' = errorMessage
              /\ (launches[i].del # "failed" /\ launches'[i].del = "failed")
                 => /\ Returns(i)
                    /\ HealRefreshes(refreshes', i) = {}
                    /\ includes(errorMessage', launches[i].err)]_vars

\* C35 witness: the self-healing of a file ran to its end: the record is
\* deleted, the reconciliation and the search completed, the notice is shown
C35_Witness ==
    \E i \in DOMAIN launches :
        /\ launches[i].cand.type = "file"
        /\ launches[i].err = MsgFileNotFound
        /\ launches[i].del = "ok"
        /\ launches[i].end = "pruned"
        /\ HealRefreshes(refreshes, i) = {}
        /\ errorMessage = FileMissingNotice(launches[i].cand.payload)
                              \o HistoryPrunedNotice

\* ------------------------------------------------------------------------
\* getClientId: the client id of the process, kept in cachedId and in
\* localStorage under STORAGE_KEY

MaxCalls == 3

\* the n-th id of the process: a random UUID or the "id-" fallback string,
\* never empty and never the same twice
generateId(n) == "id-" \o ToString(n)

\* getClientId whose fallback returns a generated id without keeping it
getClientIdFallbackUncached(c, localStorage) ==
    LET existing == c.item
        fallback(n) == [cachedId |-> <<>>, item |-> c.item,
                        generated |-> c.generated + n,
                        result |-> generateId(c.generated + n), stored |-> FALSE]
    IN  IF c.cachedId # <<>> /\ c.cachedId[1] # ""
        THEN [cachedId |-> c.cachedId, item |-> c.item, generated |-> c.generated,
              result |-> c.cachedId[1], stored |-> FALSE]
        ELSE IF localStorage = "undefined" \/ localStorage = "getItemThrows"
        THEN fallback(1)
        ELSE IF existing # <<>> /\ existing[1] # ""
        THEN [cachedId |-> existing, item |-> c.item, generated |-> c.generated,
              result |-> existing[1], stored |-> FALSE]
        ELSE IF localStorage = "setItemThrows"
        THEN fallback(2)
        ELSE [cachedId |-> <<generateId(c.generated + 1)>>,
              item |-> <<generateId(c.generated + 1)>>,
              generated |-> c.generated + 1,
              result |-> generateId(c.generated + 1), stored |-> TRUE]

\* getClientId() in the state c = [cachedId, item, generated] with the
\* given localStorage: the state after the call, the value returned and
\* whether setItem stored it
getClientId(c, localStorage) ==
    LET existing == c.item
        \* lines 31-32, reached when localStorage is undefined or threw
        fallback(n) == [cachedId |-> <<generateId(c.generated + n)>>,
                        item |-> c.item, generated |-> c.generated + n,
                        result |-> generateId(c.generated + n), stored |-> FALSE]
    IN  IF c.cachedId # <<>> /\ c.cachedId[1] # ""
        THEN [cachedId |-> c.cachedId, item |-> c.item, generated |-> c.generated,
              result |-> c.cachedId[1], stored |-> FALSE]
        ELSE IF localStorage = "undefined" \/ localStorage = "getItemThrows"
        THEN fallback(1)
        ELSE IF existing # <<>> /\ existing[1] # ""
        THEN [cachedId |-> existing, item |-> c.item, generated |-> c.generated,
              result |-> existing[1], stored |-> FALSE]
        ELSE IF localStorage = "setItemThrows"
        \* the id generated at line 22 is dropped, line 31 generates another
        THEN fallback(2)
        ELSE [cachedId |-> <<generateId(c.generated + 1)>>,
              item |-> <<generateId(c.generated + 1)>>,
              generated |-> c.generated + 1,
              result |-> generateId(c.generated + 1), stored |-> TRUE]

\* a call of getClientId() somewhere in the process
GetClientId(localStorage) ==
    /\ Len(clientId.calls) < MaxCalls
    /\ LET after == getClientId(clientId, localStorage)
       IN  clientId' =
               [cachedId |-> after.cachedId, item |-> after.item,
                generated |-> after.generated,
                calls |-> Append(clientId.calls,
                                 [localStorage |-> localStorage,
                                  existing |-> clientId.item,
                                  result |-> after.result,
                                  stored |-> after.stored])]
    /\ UNCHANGED <<cacheVars, listVars, uiVars, backendVars, launches, addLog,
                   refreshes, utilsCall, escapeHook, translation>>

\* the item under STORAGE_KEY is set or removed from outside getClientId
\* (another window of the same origin, the user clearing site data)
StorageChanges(item) ==
    /\ item # clientId.item
    /\ clientId' = [clientId EXCEPT !.item = item]
    /\ UNCHANGED <<cacheVars, listVars, uiVars, backendVars, launches, addLog,
                   refreshes, utilsCall, escapeHook, translation>>

\* localStorage at a call is defined and working, undefined, or throws from
\* getItem or from setItem; the item is absent (<<>>), empty or an id
NextClient ==
    \/ \E localStorage \in {"available", "undefined", "getItemThrows", "setItemThrows"} :
           GetClientId(localStorage)
    \/ \E item \in {<<>>, <<"">>, <<"stored-a">>, <<"stored-b">>} :
           StorageChanges(item)

SpecClient == Init /\ [][NextClient]_vars

\* the first call found a usable localStorage holding a non-empty item
FoundStoredId(call) ==
    /\ call.localStorage \in {"available", "setItemThrows"}
    /\ call.existing # <<>>
    /\ call.existing[1] # ""

\* C36: getClientId is stable. Every call returns the non-empty value the
\* first call returned; a first call that finds an id in localStorage
\* returns it and stores nothing; a first call that finds a working
\* localStorage without an id stores the id it returns, and no later call
\* stores anything; when localStorage is undefined or throws, the id is
\* kept in memory only and later calls still return it.
C36_ClientIdStable ==
    LET calls == clientId.calls
    IN  \A i \in DOMAIN calls :
            /\ calls[i].result = calls[1].result
            /\ calls[i].result # ""
            /\ clientId.cachedId = <<calls[1].result>>
            /\ i > 1 => ~calls[i].stored
            /\ i = 1 /\ FoundStoredId(calls[1]) =>
                   calls[1].result = calls[1].existing[1] /\ ~calls[1].stored
            /\ i = 1 /\ ~FoundStoredId(calls[1]) =>
                   calls[1].stored <=> calls[1].localStorage = "available"

\* a first call whose localStorage threw, then a call with a working
\* localStorage that holds another id
C36_Witness ==
    /\ Len(clientId.calls) >= 2
    /\ clientId.calls[1].localStorage \in {"getItemThrows", "setItemThrows", "undefined"}
    /\ ~FoundStoredId(clientId.calls[1])
    /\ clientId.calls[2].localStorage = "available"
    /\ FoundStoredId(clientId.calls[2])

\* ------------------------------------------------------------------------
\* TranslationWindow: the source text, the two languages, the debounce
\* timer and the handleTranslate calls that await a response

MaxRequests == 2

\* the answer of the translation service for a text and a pair of
\* languages, as one string that tells the three apart
translateText(text, from, to) == <<from, ">", to, ":">> \o text

\* the effect on [sourceText, sourceLang, targetLang]: clear the timer,
\* then blank the result for a blank text or start the 500 ms timer
autoTranslateEffect(t) ==
    IF trim(t.sourceText) = <<>>
    THEN [t EXCEPT !.timer = FALSE, !.translatedText = <<>>, !.error = FALSE]
    ELSE [t EXCEPT !.timer = TRUE]

\* handleTranslate from the comparison of the languages on: the text is
\* shown as it is when they are equal, else translateText is awaited
resumeTranslate(t, id, text, actualFrom, to) ==
    IF actualFrom = to
    THEN [t EXCEPT !.translatedText = text, !.isTranslating = FALSE,
                   !.running = {r \in @ : r.id # id}]
    ELSE [t EXCEPT !.running = {r \in @ : r.id # id} \cup
                       {[id |-> id, text |-> text, from |-> actualFrom,
                         to |-> to, awaits |-> "translate"]}]

\* handleTranslate(text, from, to) up to its first await
handleTranslate(t, text, from, to) ==
    IF trim(text) = <<>>
    THEN [t EXCEPT !.translatedText = <<>>, !.error = FALSE]
    ELSE LET begun == [t EXCEPT !.isTranslating = TRUE, !.error = FALSE,
                                !.detectedLang = <<>>, !.started = @ + 1]
         IN  IF from = "auto"
             THEN [begun EXCEPT !.running = @ \cup
                       {[id |-> begun.started, text |-> text, from |-> from,
                         to |-> to, awaits |-> "detect"]}]
             ELSE resumeTranslate(begun, begun.started, text, from, to)

TranslationFrame ==
    UNCHANGED <<cacheVars, listVars, uiVars, backendVars, launches, addLog,
                refreshes, utilsCall, escapeHook, clientId>>

\* the user edits the source text
SetSourceText(text) ==
    /\ text # translation.sourceText
    /\ translation' = autoTranslateEffect([translation EXCEPT !.sourceText = text])
    /\ TranslationFrame

\* the user selects another source language
SetSourceLang(lang) ==
    /\ lang # translation.sourceLang
    /\ translation' = autoTranslateEffect([translation EXCEPT !.sourceLang = lang])
    /\ TranslationFrame

\* the user selects another target language
SetTargetLang(lang) ==
    /\ lang # translation.targetLang
    /\ translation' = autoTranslateEffect([translation EXCEPT !.targetLang = lang])
    /\ TranslationFrame

\* the launcher emits "translation:set-text": the text is set and
\* translated at once; the effect runs too when the text changed
SetTextEvent(text) ==
    /\ translation.started < MaxRequests
    /\ text # <<>>
    /\ LET set == [translation EXCEPT !.sourceText = text]
           called == handleTranslate(set, text, translation.sourceLang,
                                     translation.targetLang)
       IN  translation' = IF text # translation.sourceText
                          THEN autoTranslateEffect(called)
                          ELSE called
    /\ TranslationFrame

\* the 500 ms timer fires
DebounceFires ==
    /\ translation.timer
    /\ translation.started < MaxRequests
    /\ translation' = handleTranslate([translation EXCEPT !.timer = FALSE],
                                      translation.sourceText,
                                      translation.sourceLang,
                                      translation.targetLang)
    /\ TranslationFrame

\* the detection fetch of a call settles: detected is <<lang>>, or <<>>
\* when the fetch failed or the response named no language
DetectSettles(r, detected) ==
    /\ r \in translation.running
    /\ r.awaits = "detect"
    /\ translation' =
           IF detected = <<>>
           THEN resumeTranslate(translation, r.id, r.text, r.from, r.to)
           ELSE resumeTranslate([translation EXCEPT !.detectedLang = detected],
                                r.id, r.text, detected[1], r.to)
    /\ TranslationFrame

\* translateText of a call resolves or rejects, then the finally runs
TranslateSettles(r, ok) ==
    /\ r \in translation.running
    /\ r.awaits = "translate"
    /\ translation' =
           [translation EXCEPT
               !.translatedText = IF ok THEN translateText(r.text, r.from, r.to)
                                  ELSE <<>>,
               !.error = IF ok THEN @ ELSE TRUE,
               !.isTranslating = FALSE,
               !.running = @ \ {r}]
    /\ TranslationFrame

NextTranslation ==
    \/ \E text \in {<<>>, <<" ">>, <<"a">>, <<"b">>} : SetSourceText(text)
    \/ \E lang \in {"auto", "zh"} : SetSourceLang(lang)
    \/ \E lang \in {"en", "zh"} : SetTargetLang(lang)
    \/ \E text \in {<<" ">>, <<"a">>, <<"b">>} : SetTextEvent(text)
    \/ DebounceFires
    \/ \E r \in translation.running, detected \in {<<>>, <<"zh">>, <<"en">>} :
           DetectSettles(r, detected)
    \/ \E r \in translation.running, ok \in BOOLEAN : TranslateSettles(r, ok)

SpecTranslation == Init /\ [][NextTranslation]_vars

\* what the window shows for the current text and languages when a
\* translation of them succeeded
ResultsForCurrent ==
    LET t == translation
        sources == IF t.sourceLang = "auto" THEN {"auto", "zh", "en"}
                   ELSE {t.sourceLang}
    IN  {IF from = t.targetLang THEN t.sourceText
         ELSE translateText(t.sourceText, from, t.targetLang) : from \in sources}

\* C37: whenever no started request is pending (and no timer, no error, a
\* non-blank text), translatedText is the result for the current
\* sourceText, sourceLang and targetLang; and isTranslating is true
\* whenever a request is in flight.
C37_ResultIsForCurrentInput ==
    /\ translation.running # {} => translation.isTranslating
    /\ (/\ translation.running = {}
        /\ translation.started > 0
        /\ ~translation.timer
        /\ ~translation.error
        /\ trim(translation.sourceText) # <<>>)
       => translation.translatedText \in ResultsForCurrent

====
